---- MODULE Spec2Model ----
(***************************************************************************)
(* A model of the event and navigation core of the ranger file manager:    *)
(* the preview cache of ranger/core/actions.py and the signal dispatcher   *)
(* of ranger/ext/signals.py.                                               *)
(***************************************************************************)
EXTENDS Integers, Sequences, FiniteSets, TLC

(***************************************************************************)
(* Bounds of the model.                                                    *)
(***************************************************************************)
\* the loader is given at most this many preview jobs in a run
MaxSubmits == 2
\* signal_bind is called at most this many times in a run
MaxBinds == 3
\* signal_emit calls in progress at one time, one inside the other
MaxDepth == 2
\* the longest line typed into the console
MaxLine == 4
\* the largest maxlen of a History, and the most entries a History without
\* maxlen is given
MaxHistory == 3
\* the largest name tab_new gives a tab: range(1, MaxTabs + 1)
MaxTabs == 3
\* the most candidates a completion yields
MaxCandidates == 2
\* the most presses of the tab key, to either side, in one cycle
MaxPresses == 4
\* the most files and directories below the root of a directory tree
MaxNodes == 3

(***************************************************************************)
(* Values.                                                                 *)
(***************************************************************************)
Paths == {"p1", "p2"}
Widths == {40, 80}
Heights == {24, 48}
\* "A -1 in tuples means any"
ANY == -1
Keys == (Widths \cup {ANY}) \X (Heights \cup {ANY})
\* the loadables, numbered in the order the loader was given them
JobIds == 1 .. MaxSubmits
\* Python values, by kind: the captured stdout of job n, the text that
\* open(path, 'r').read(1024 * 32) yields, None, False, and the absence of a
\* key from a dict
Stdout(n) == <<"stdout", n>>
Contents == {Stdout(n) : n \in JobIds}
FileText == <<"file", 0>>
None == <<"None", 0>>
False == <<"False", 0>>
True == <<"True", 0>>
Absent == <<"absent", 0>>
\* exit codes of the preview script; 6 stands for every other code
ExitCodes == {0, 1, 2, 3, 4, 5, 6}
\* env.cf when the current directory has no pointed object
NoFile == "nofile"
\* self.previews has no key for the path
NoDict == 0
\* the dict objects, named by the number of the job submitted with them: a
\* new dict has no cached value, so get_preview submits a job for it
DictIds == JobIds

\* the names of the signals
SignalNames == {"move", "cd"}
\* priorities in tenths; signal_bind clamps them to 0 .. 1
PriorityMin == 0
PriorityMax == 10
PriorityArgs == {-5, 0, 15}

\* command names, as the sequences of their characters
Edit == <<"e", "d", "i", "t">>
Exit == <<"e", "x", "i", "t">>
EditAll == <<"e", "d", "i", "t", "a", "l", "l">>
CommandNames == {Edit, Exit, EditAll}
\* the names given to alias() as the new name
AliasNames == {<<"e">>}
\* the beginnings of s, from the empty string to s itself
Prefixes(s) == {SubSeq(s, 1, n) : n \in 0 .. Len(s)}
\* the names get_command is asked for
Queries == UNION {Prefixes(c) : c \in CommandNames} \cup {<<"q">>}
\* a command class: its name and its allow_abbrev attribute
Classes == [name : CommandNames, allow_abbrev : BOOLEAN]
NoClass == [name |-> <<>>, allow_abbrev |-> FALSE]

\* the characters of a line
Chars == {" ", "a", "b"}
\* the lines: every sequence of at most MaxLine characters
Lines == UNION {[1 .. n -> Chars] : n \in 0 .. MaxLine}
\* the words given to tabinsert
Words == {<<"b">>, <<"a", " ">>}

\* the entries of a History
Items == {"x", "y", "z"}
\* no entry: what a call returns that returns None or raises
NoItem == "none"
\* maxlen = None: the deques are unbounded
NoMaxlen == -1
\* the values History is created with
Maxlens == {NoMaxlen} \cup 0 .. MaxHistory

\* paths, as the sequences of their characters; the file system holds the
\* directories /, /a and /a/b and the file /f
Slash == <<"/">>
DirA == <<"/", "a">>
DirAB == <<"/", "a", "/", "b">>
FileF == <<"/", "f">>
\* the names on the way from the root to each directory
Dirs == {<<>>, <<"a">>, <<"a", "b">>}
\* the names on the way from the root to everything that exists
Entries == Dirs \cup {<<"f">>}
\* the home directory of the user
Home == DirA
\* the paths enter_dir is given
Args == {Slash, <<"/", "/">>, <<"~">>, <<"b">>, <<".", ".">>, <<"f">>}
\* the values of settings.max_history_size
HistorySizes == {0, 2}
\* None where a Directory or a file is expected
NoDir == <<>>

VARIABLES
    previews,      \* fm.previews: path -> the dict of the path, or NoDict
    dicts,         \* the dict objects: loading, foundpreview, content keys
    jobs,          \* the loadables the loader holds, with their closure
    cf,            \* env.cf: the pointed file, or NoFile
    submits,       \* the number of loadables given to the loader so far
    last,          \* the last call made: its arguments and its outcome
    signals,       \* SignalDispatcher._signals: name -> list of handlers
    made,          \* the SignalHandler objects signal_bind has returned
    dead,          \* the weakly bound handlers whose target was destroyed
    frames,        \* the signal_emit calls in progress, innermost last
    emitted,       \* the last signal_emit that returned, and how
    commands,      \* CommandContainer.commands: name -> command class
    aliases,       \* CommandContainer.aliases: alias -> the name it stands for
    got,           \* the last get_command call and its outcome
    line,          \* Command.line: the raw line, a sequence of characters
    args,          \* Command.args: the words of the line
    pos,           \* Command.pos: the cursor position in the line
    shifted,       \* Command._shifted
    out,           \* the last call of a line helper and what it returned
    maxlen,        \* the maxlen the History was created with, or NoMaxlen
    history,       \* History.history: the back stack, its top last
    history_forward, \* History.history_forward: the forward stack
    hcall,         \* the last call on the History, and the stacks before it
    tab,           \* the Tab: path, thisdir, _thisfile, pathway
    tcall,         \* the last call on the Tab, its outcome and its signals
    tabs,          \* Actions.tabs: name -> path, NoPath for a name not in it
    current_tab,   \* Actions.current_tab
    cwd,           \* env.cwd.path
    tabscall,      \* the last tab_open, tab_close, tab_move or tab_new
    console,       \* the Console: line, pos, tab_deque, visible
    cycle,         \* the completion the tab_deque was made from, and the
                   \* presses of the tab key since
    tree,          \* the directory tree: the kind and the parent of each node
    env,           \* env.cwd and the pointer of every Directory
    travcall       \* the last move or traverse

previewvars == <<previews, dicts, jobs, cf, submits, last>>
signalvars == <<signals, made, dead, frames, emitted>>
commandvars == <<commands, aliases, got>>
linevars == <<line, args, pos, shifted, out>>
historyvars == <<maxlen, history, history_forward, hcall>>
tabvars == <<tab, tcall>>
tabsvars == <<tabs, current_tab, cwd, tabscall>>
consolevars == <<console, cycle>>
traversevars == <<tree, env, travcall>>
vars == <<previews, dicts, jobs, cf, submits, last,
          signals, made, dead, frames, emitted,
          commands, aliases, got,
          line, args, pos, shifted, out,
          maxlen, history, history_forward, hcall,
          tab, tcall,
          tabs, current_tab, cwd, tabscall,
          console, cycle,
          tree, env, travcall>>
\* what the operations of each part leave alone
notpreview ==
    <<signalvars, commandvars, linevars, historyvars, tabvars, tabsvars,
      consolevars, traversevars>>
notsignal ==
    <<previewvars, commandvars, linevars, historyvars, tabvars, tabsvars,
      consolevars, traversevars>>
notcommand ==
    <<previewvars, signalvars, linevars, historyvars, tabvars, tabsvars,
      consolevars, traversevars>>
notline ==
    <<previewvars, signalvars, commandvars, historyvars, tabvars, tabsvars,
      consolevars, traversevars>>
nothistory ==
    <<previewvars, signalvars, commandvars, linevars, tabvars, tabsvars,
      consolevars, traversevars>>
\* the Tab has a History of its own: its operations change both
nottab ==
    <<previewvars, signalvars, commandvars, linevars, tabsvars, consolevars,
      traversevars>>
nottabs ==
    <<previewvars, signalvars, commandvars, linevars, historyvars, tabvars,
      consolevars, traversevars>>
notconsole ==
    <<previewvars, signalvars, commandvars, linevars, historyvars, tabvars,
      tabsvars, traversevars>>
nottraverse ==
    <<previewvars, signalvars, commandvars, linevars, historyvars, tabvars,
      tabsvars, consolevars>>

\* {'loading': False}
NewDict ==
    [loading |-> FALSE, foundpreview |-> Absent, content |-> [k \in Keys |-> Absent]]

\* a call: its arguments (of a callback: those of the job it ran for, the
\* number of the job and the exit code of the process), what it returned,
\* whether it gave the loader a job, whether it raised, whether it set a
\* need_redraw flag of the ui, and the dict it worked on
NoCall ==
    [op |-> "none", path |-> NoFile, width |-> ANY, height |-> ANY,
     job |-> 0, exit |-> ANY, ret |-> None, submitted |-> FALSE,
     raised |-> FALSE, redraw |-> FALSE, data |-> NoDict]

\* the dict objects something still refers to
Referenced(pv, jb, lst) ==
    {pv[p] : p \in Paths} \cup {j.data : j \in jb} \cup {lst.data}

\* a dict nothing refers to is freed
Collect(pv, jb, lst, ds) ==
    [i \in DictIds |-> IF i \in Referenced(pv, jb, lst) THEN ds[i] ELSE NewDict]

(***************************************************************************)
(* The preview cache: Actions.update_preview and Actions.get_preview.      *)
(***************************************************************************)
\* settings.preview_script and settings.use_preview_script: the cache is in use
use_preview_script == TRUE

\* the lookup with the exact key tried first and (-1, -1) last
FoundSpecOrder(content, width, height) ==
    IF content[<<width, height>>] # Absent THEN content[<<width, height>>]
    ELSE IF content[<<ANY, height>>] # Absent THEN content[<<ANY, height>>]
    ELSE IF content[<<width, ANY>>] # Absent THEN content[<<width, ANY>>]
    ELSE IF content[<<ANY, ANY>>] # Absent THEN content[<<ANY, ANY>>]
    ELSE False

\* data.get((-1, -1), data.get((width, -1),
\*     data.get((-1, height), data.get((width, height), False))))
Found(content, width, height) ==
    IF content[<<ANY, ANY>>] # Absent THEN content[<<ANY, ANY>>]
    ELSE IF content[<<width, ANY>>] # Absent THEN content[<<width, ANY>>]
    ELSE IF content[<<ANY, height>>] # Absent THEN content[<<ANY, height>>]
    ELSE IF content[<<width, height>>] # Absent THEN content[<<width, height>>]
    ELSE False

\* a mistaken deletion: the whole cache is dropped
DeletedAll(pv, path) == [p \in Paths |-> NoDict]

\* del self.previews[path]
Deleted(pv, path) == [pv EXCEPT ![path] = NoDict]

\* del self.previews[path]; self.ui.need_redraw = True; except: return False
update_preview(path) ==
    LET existed == previews[path] # NoDict
        pv == Deleted(previews, path)
        lst == [NoCall EXCEPT !.op = "update_preview", !.path = path,
                              !.ret = IF existed THEN None ELSE False,
                              !.redraw = existed]
    IN  /\ previews' = pv
        /\ last' = lst
        /\ dicts' = Collect(pv, jobs, lst, dicts)
        /\ UNCHANGED <<jobs, cf, submits>>

\* the dict get_preview works on: self.previews[path], or a new one
DataOf(path) ==
    IF previews[path] # NoDict THEN previews[path] ELSE submits + 1

\* a lookup that ignores the loading flag
IsLoadingNever(existed, data) == FALSE

\* try: data = self.previews[path] ... else: if data['loading']: return None
IsLoading(existed, data) == existed /\ data.loading

get_preview(path, width, height) ==
    /\ use_preview_script
    /\ LET existed == previews[path] # NoDict
           id == DataOf(path)
           data == IF existed THEN dicts[id] ELSE NewDict
           found == Found(data.content, width, height)
           call == [NoCall EXCEPT !.op = "get_preview", !.path = path,
                                  !.width = width, !.height = height, !.data = id]
       IN  IF IsLoading(existed, data)
           THEN \* return None
                /\ last' = call
                /\ dicts' = Collect(previews, jobs, call, dicts)
                /\ UNCHANGED <<previews, jobs, cf, submits>>
           ELSE IF found = False
           THEN \* data['loading'] = True; self.loader.add(loadable); return None
                LET pv == [previews EXCEPT ![path] = id]
                    jb == jobs \cup {[id |-> submits + 1, path |-> path,
                                      width |-> width, height |-> height,
                                      data |-> id]}
                    lst == [call EXCEPT !.submitted = TRUE]
                IN  /\ submits < MaxSubmits
                    /\ submits' = submits + 1
                    /\ previews' = pv
                    /\ jobs' = jb
                    /\ last' = lst
                    /\ dicts' = Collect(pv, jb, lst,
                                   [dicts EXCEPT ![id] = [data EXCEPT !.loading = TRUE]])
                    /\ UNCHANGED cf
           ELSE \* return found
                LET lst == [call EXCEPT !.ret = found]
                IN  /\ last' = lst
                    /\ dicts' = Collect(previews, jobs, lst, dicts)
                    /\ UNCHANGED <<previews, jobs, cf, submits>>

\* the keys of exit codes 3 and 4 mixed up
StoredKeySwapped(job, exit) ==
    CASE exit = 0 -> <<job.width, job.height>>
      [] exit = 3 -> <<job.width, ANY>>
      [] exit = 4 -> <<ANY, job.height>>
      [] OTHER -> <<ANY, ANY>>

\* the key on_after stores under
StoredKey(job, exit) ==
    CASE exit = 0 -> <<job.width, job.height>>
      [] exit = 3 -> <<ANY, job.height>>
      [] exit = 4 -> <<job.width, ANY>>
      [] OTHER -> <<ANY, ANY>>

\* what on_after stores there; the else branch stores None as exit code 1 does
StoredValue(exit, content) ==
    CASE exit \in {0, 3, 4, 5} -> content
      [] exit = 2 -> FileText
      [] OTHER -> None

\* an unknown exit code caches nothing
StoredKnown(d, job, exit) ==
    IF exit \in 0 .. 5
    THEN [d EXCEPT !.content[StoredKey(job, exit)] = StoredValue(exit, Stdout(job.id))]
    ELSE d

\* if exit == 0: data[(width, height)] = content ... else: data[(-1, -1)] = None
Stored(d, job, exit) ==
    [d EXCEPT !.content[StoredKey(job, exit)] = StoredValue(exit, Stdout(job.id))]

\* a callback that looks the dict up in self.previews when it runs
DataNow(job) ==
    IF previews[job.path] # NoDict THEN previews[job.path] ELSE job.data

\* the dict the callbacks of a job write to: the local variable data of the
\* get_preview call that made the job, which the closure keeps
Data(job) == job.data

\* the 'after' handler of the job's loadable. readable: open(path, 'r') succeeds
on_after(job, exit, readable) ==
    /\ job \in jobs
    /\ LET id == Data(job)
           d0 == [dicts[id] EXCEPT !.foundpreview = IF exit = 1 THEN False ELSE True]
           ioerror == exit = 2 /\ ~readable
           d1 == IF ioerror THEN d0 ELSE Stored(d0, job, exit)
           \* self.env.cf.realpath with env.cf None
           attrerror == ~ioerror /\ cf = NoFile
           d2 == IF ioerror \/ attrerror THEN d1 ELSE [d1 EXCEPT !.loading = FALSE]
           jb == jobs \ {job}
           lst == [NoCall EXCEPT !.op = "on_after", !.path = job.path,
                                 !.width = job.width, !.height = job.height,
                                 !.job = job.id, !.exit = exit, !.data = id,
                                 !.raised = ioerror \/ attrerror,
                                 !.redraw = ~ioerror /\ ~attrerror /\ cf = job.path]
       IN  /\ jobs' = jb
           /\ last' = lst
           /\ dicts' = Collect(previews, jb, lst, [dicts EXCEPT ![id] = d2])
           /\ UNCHANGED <<previews, cf, submits>>

\* the 'destroy' handler of the job's loadable: del self.previews[path]
on_destroy(job) ==
    /\ job \in jobs
    /\ LET pv == [previews EXCEPT ![job.path] = NoDict]
           jb == jobs \ {job}
           lst == [NoCall EXCEPT !.op = "on_destroy", !.path = job.path,
                                 !.width = job.width, !.height = job.height,
                                 !.job = job.id, !.data = job.data]
       IN  /\ previews' = pv
           /\ jobs' = jb
           /\ last' = lst
           /\ dicts' = Collect(pv, jb, lst, dicts)
           /\ UNCHANGED <<cf, submits>>

\* self.env.cf = self.env.cwd.pointed_obj
scroll(file) ==
    /\ cf' = file
    /\ last' = [NoCall EXCEPT !.op = "scroll"]
    /\ dicts' = Collect(previews, jobs, NoCall, dicts)
    /\ UNCHANGED <<previews, jobs, submits>>

PreviewInit ==
    /\ previews = [p \in Paths |-> NoDict]
    /\ dicts = [i \in DictIds |-> NewDict]
    /\ jobs = {}
    /\ cf = NoFile
    /\ submits = 0
    /\ last = NoCall

UpdatePreview ==
    /\ \E path \in Paths : update_preview(path)
    /\ UNCHANGED notpreview
GetPreview(paths, widths, heights) ==
    /\ \E path \in paths, width \in widths, height \in heights :
          get_preview(path, width, height)
    /\ UNCHANGED notpreview
\* how a job can end: its exit code and, for exit code 2 alone, whether the
\* file can be read
Outcomes == {o \in ExitCodes \X BOOLEAN : o[2] \/ o[1] = 2}
OnAfter ==
    /\ \E job \in jobs, o \in Outcomes : on_after(job, o[1], o[2])
    /\ UNCHANGED notpreview
OnDestroy ==
    /\ \E job \in jobs : on_destroy(job)
    /\ UNCHANGED notpreview
Scroll ==
    /\ \E file \in Paths \cup {NoFile} : scroll(file)
    /\ UNCHANGED notpreview

(***************************************************************************)
(* The signal dispatcher: SignalDispatcher of ranger/ext/signals.py.       *)
(***************************************************************************)
\* self.priority = max(0, min(1, priority))
Clamp(priority) ==
    IF priority < PriorityMin THEN PriorityMin
    ELSE IF priority > PriorityMax THEN PriorityMax
    ELSE priority

\* s with h put behind the last handler whose priority is not lower
InsertByPriority(s, h) ==
    LET before == {i \in 1 .. Len(s) : s[i].priority >= h.priority}
        k == IF before = {} THEN 0
             ELSE CHOOSE i \in before : \A j \in before : j <= i
    IN  SubSeq(s, 1, k) \o <<h>> \o SubSeq(s, k + 1, Len(s))

\* a list left in the order of the signal_bind calls
Unsorted(s) == s

\* handlers.sort(key=lambda handler: -handler.priority): a stable sort
RECURSIVE Sorted(_)
Sorted(s) ==
    IF s = <<>> THEN <<>>
    ELSE InsertByPriority(Sorted(SubSeq(s, 1, Len(s) - 1)), s[Len(s)])

\* the list of the signal, [] when the dict has none
HandlersOf(name) == IF name \in DOMAIN signals THEN signals[name] ELSE <<>>

\* s without the handler h
Without(s, h) == SelectSeq(s, LAMBDA x : x.id # h.id)

\* h is in the list
In(s, h) == \E i \in 1 .. Len(s) : s[i].id = h.id

\* what a signal_emit returned, and the handlers it called, in order
NoEmit == [name |-> "", ret |-> "none", called |-> <<>>]

signal_bind(name, priority, weak, pass_signal) ==
    /\ Len(made) < MaxBinds
    /\ LET handler == [id |-> Len(made) + 1, signal_name |-> name,
                       priority |-> Clamp(priority), pass_signal |-> pass_signal,
                       weak |-> weak, active |-> TRUE]
           handlers == Sorted(Append(HandlersOf(name), handler))
       IN  /\ signals' = [n \in DOMAIN signals \cup {name} |->
                             IF n = name THEN handlers ELSE signals[n]]
           /\ made' = Append(made, handler)
    /\ emitted' = NoEmit
    /\ UNCHANGED <<dead, frames>>

signal_unbind(handler) ==
    /\ IF handler.signal_name \in DOMAIN signals
       THEN signals' = [signals EXCEPT ![handler.signal_name] = Without(@, handler)]
       ELSE UNCHANGED signals
    /\ emitted' = NoEmit
    /\ UNCHANGED <<made, dead, frames>>

\* the object a weakly bound handler refers to is destroyed
expire(handler) ==
    /\ handler.weak
    /\ handler.id \notin dead
    /\ dead' = dead \cup {handler.id}
    /\ emitted' = NoEmit
    /\ UNCHANGED <<signals, made, frames>>

\* signal_emit up to the loop
signal_emit(name) ==
    /\ IF name \notin DOMAIN signals \/ HandlersOf(name) = <<>>
       THEN /\ emitted' = [name |-> name, ret |-> "True", called |-> <<>>]
            /\ UNCHANGED frames
       ELSE /\ frames' = Append(frames, [name |-> name, handlers |-> signals[name],
                                          i |-> 1, called |-> <<>>])
            /\ emitted' = NoEmit
    /\ UNCHANGED <<signals, made, dead>>

\* a loop over the list itself, which binds and unbinds change under it
IteratedLive(f) == HandlersOf(f.name)

\* for handler in tuple(handlers): the loop runs over a copy of the list made
\* when the emit started
Iterated(f) == f.handlers

\* a stop() that is never looked at
StoppedNever(handler, stop) == FALSE

\* signal.stopped after the call: only a handler that is passed the signal
\* can have called signal.stop()
Stopped(handler, stop) == stop /\ handler.pass_signal

\* one round of the loop of the innermost signal_emit, or its return; stop:
\* the handler called calls signal.stop() if it is passed the signal
propagate(stop) ==
    /\ frames # <<>>
    /\ LET f == frames[Len(frames)]
           outer == SubSeq(frames, 1, Len(frames) - 1)
       IN  IF f.i > Len(Iterated(f))
           THEN \* return True
                /\ frames' = outer
                /\ emitted' = [name |-> f.name, ret |-> "True", called |-> f.called]
                /\ UNCHANGED <<signals, made, dead>>
           ELSE LET handler == Iterated(f)[f.i]
                    next == [f EXCEPT !.i = f.i + 1]
                IN  IF ~handler.active
                    THEN /\ frames' = Append(outer, next)
                         /\ emitted' = NoEmit
                         /\ UNCHANGED <<signals, made, dead>>
                    ELSE IF handler.weak /\ handler.id \in dead
                    THEN \* except ReferenceError: handlers.remove(handler)
                         IF In(signals[f.name], handler)
                         THEN /\ signals' = [signals EXCEPT ![f.name] = Without(@, handler)]
                              /\ frames' = Append(outer, next)
                              /\ emitted' = NoEmit
                              /\ UNCHANGED <<made, dead>>
                         ELSE \* ValueError: list.remove(x): x not in list
                              /\ frames' = <<>>
                              /\ emitted' = [name |-> f.name, ret |-> "ValueError",
                                             called |-> f.called]
                              /\ UNCHANGED <<signals, made, dead>>
                    ELSE LET called == [next EXCEPT !.called = Append(@, handler)]
                         IN  IF Stopped(handler, stop)
                             THEN \* if signal.stopped: return False
                                  /\ frames' = outer
                                  /\ emitted' = [name |-> f.name, ret |-> "False",
                                                 called |-> called.called]
                                  /\ UNCHANGED <<signals, made, dead>>
                             ELSE /\ frames' = Append(outer, called)
                                  /\ emitted' = NoEmit
                                  /\ UNCHANGED <<signals, made, dead>>

SignalInit ==
    /\ signals = <<>>
    /\ made = <<>>
    /\ dead = {}
    /\ frames = <<>>
    /\ emitted = NoEmit

(***************************************************************************)
(* The command registry: CommandContainer of ranger/api/commands.py.       *)
(***************************************************************************)
\* cmd.startswith(name)
StartsWith(cmd, name) ==
    Len(name) <= Len(cmd) /\ SubSeq(cmd, 1, Len(name)) = name

\* every name that starts with the name asked for, whatever its class allows
MatchesAnyPrefix(cmds, name) ==
    {cmd \in DOMAIN cmds : StartsWith(cmd, name) \/ cmd = name}

\* the names whose classes make up lst:
\* cls.allow_abbrev and cmd.startswith(name) or cmd == name
Matches(cmds, name) ==
    {cmd \in DOMAIN cmds :
        (cmds[cmd].allow_abbrev /\ StartsWith(cmd, name)) \/ cmd = name}

\* what a call returned or raised
Returned(cls) == [kind |-> "class", cls |-> cls]
Raised(error) == [kind |-> error, cls |-> NoClass]
ReturnedNone == [kind |-> "None", cls |-> NoClass]

\* a resolution in which an exact name does not win over the abbreviations
ResolvedNoExact(cmds, name, lst) ==
    IF Cardinality(lst) = 0 THEN Raised("KeyError")
    ELSE IF Cardinality(lst) = 1 THEN Returned(cmds[CHOOSE cmd \in lst : TRUE])
    ELSE Raised("ValueError")

\* lines 59-65 of get_command; self.commands[name] raises KeyError when the
\* name is not registered
Resolved(cmds, name, lst) ==
    IF Cardinality(lst) = 0 THEN Raised("KeyError")
    ELSE IF Cardinality(lst) = 1 THEN Returned(cmds[CHOOSE cmd \in lst : TRUE])
    ELSE IF name \notin DOMAIN cmds THEN Raised("KeyError")
    ELSE IF cmds[name] \in {cmds[cmd] : cmd \in lst} THEN Returned(cmds[name])
    ELSE Raised("ValueError")

NoGot == [name |-> <<>>, abbrev |-> FALSE, result |-> ReturnedNone, asked |-> FALSE]

register(command) ==
    /\ commands' = [n \in DOMAIN commands \cup {command.name} |->
                       IF n = command.name THEN command ELSE commands[n]]
    /\ got' = NoGot
    /\ UNCHANGED aliases

alias(new, old) ==
    /\ IF old \in DOMAIN commands
       THEN /\ commands' = [n \in DOMAIN commands \cup {new} |->
                               IF n = new THEN commands[old] ELSE commands[n]]
            /\ aliases' = [n \in DOMAIN aliases \cup {new} |->
                               IF n = new THEN old ELSE aliases[n]]
       ELSE UNCHANGED <<commands, aliases>>
    /\ got' = NoGot

get_command(name, abbrev) ==
    /\ got' = [name |-> name, abbrev |-> abbrev, asked |-> TRUE,
               result |-> IF abbrev
                          THEN Resolved(commands, name, Matches(commands, name))
                          ELSE IF name \in DOMAIN commands
                               THEN Returned(commands[name])
                               ELSE ReturnedNone]
    /\ UNCHANGED <<commands, aliases>>

CommandInit ==
    /\ commands = <<>>
    /\ aliases = <<>>
    /\ got = NoGot

Register ==
    /\ \E command \in Classes : register(command)
    /\ UNCHANGED notcommand
Alias ==
    /\ \E new \in AliasNames, old \in CommandNames \cup AliasNames : alias(new, old)
    /\ UNCHANGED notcommand
GetCommand ==
    /\ \E name \in Queries, abbrev \in BOOLEAN : get_command(name, abbrev)
    /\ UNCHANGED notcommand

CommandNext == Register \/ Alias \/ GetCommand

(***************************************************************************)
(* The line helpers of a command: Command of ranger/api/commands.py.       *)
(***************************************************************************)
\* line.split(), from character i on; cur: the word being read, acc: the
\* words read
RECURSIVE SplitFrom(_, _, _, _)
SplitFrom(ln, i, cur, acc) ==
    IF i > Len(ln) THEN (IF cur = <<>> THEN acc ELSE Append(acc, cur))
    ELSE IF ln[i] = " "
    THEN SplitFrom(ln, i + 1, <<>>, IF cur = <<>> THEN acc ELSE Append(acc, cur))
    ELSE SplitFrom(ln, i + 1, Append(cur, ln[i]), acc)

Split(ln) == SplitFrom(ln, 1, <<>>, <<>>)

\* the loop of rest(), from character i on (the code counts from 0, the
\* model from 1)
RECURSIVE RestFrom(_, _, _, _, _)
RestFrom(ln, i, got_space, word_count, target) ==
    IF i > Len(ln) THEN <<>>
    ELSE IF ln[i] = " "
    THEN RestFrom(ln, i + 1, TRUE,
                  IF got_space THEN word_count ELSE word_count + 1, target)
    ELSE IF got_space
    THEN IF word_count = target THEN SubSeq(ln, i, Len(ln))
         ELSE RestFrom(ln, i + 1, FALSE, word_count, target)
    ELSE RestFrom(ln, i + 1, got_space, word_count, target)

\* the places of the spaces among the first p characters
SpacesBefore(ln, p) == {i \in 1 .. p : ln[i] = " "}

\* the text up to the first space before the cursor
TabinsertLeftFirst(ln, p) ==
    IF SpacesBefore(ln, p) = {} THEN <<>>
    ELSE SubSeq(ln, 1, CHOOSE i \in SpacesBefore(ln, p) :
                          \A j \in SpacesBefore(ln, p) : i <= j)

\* self.line[:self.line[0:self.pos].rindex(' ') + 1], '' on ValueError
TabinsertLeft(ln, p) ==
    IF SpacesBefore(ln, p) = {} THEN <<>>
    ELSE SubSeq(ln, 1, CHOOSE i \in SpacesBefore(ln, p) :
                          \A j \in SpacesBefore(ln, p) : j <= i)

\* self.line[self.pos:]
TabinsertRight(ln, p) == SubSeq(ln, p + 1, Len(ln))

NoOut == [op |-> "none", n |-> 0, word |-> <<>>, value |-> <<>>, raised |-> FALSE]

\* del self.args[0] (IndexError when there is no word); self._shifted += 1
shift ==
    /\ IF args = <<>>
       THEN /\ out' = [NoOut EXCEPT !.op = "shift", !.raised = TRUE]
            /\ UNCHANGED <<args, shifted>>
       ELSE /\ args' = Tail(args)
            /\ shifted' = shifted + 1
            /\ out' = [NoOut EXCEPT !.op = "shift"]
    /\ UNCHANGED <<line, pos>>

rest(n) ==
    /\ out' = [NoOut EXCEPT !.op = "rest", !.n = n,
                            !.value = RestFrom(line, 1, FALSE, 0, n + shifted)]
    /\ UNCHANGED <<line, args, pos, shifted>>

tabinsert(word) ==
    /\ out' = [NoOut EXCEPT !.op = "tabinsert", !.word = word,
                            !.value = TabinsertLeft(line, pos) \o word
                                         \o TabinsertRight(line, pos)]
    /\ UNCHANGED <<line, args, pos, shifted>>

\* a command object after setargs(ln, p): self.line = line;
\* self.args = line.split(); self.pos = pos; _shifted is 0 in a new object
setargs(ln, p) ==
    /\ line = ln
    /\ args = Split(ln)
    /\ pos = p
    /\ shifted = 0
    /\ out = NoOut

\* no line was typed: the command object of the empty line
LineInit == setargs(<<>>, 0)

\* the command object of any line, the cursor anywhere in it
LineTyped == \E ln \in Lines : \E p \in 0 .. Len(ln) : setargs(ln, p)

Shift ==
    /\ shift
    /\ UNCHANGED notline
Rest ==
    /\ \E n \in 0 .. MaxLine : rest(n)
    /\ UNCHANGED notline
Tabinsert ==
    /\ \E word \in Words : tabinsert(word)
    /\ UNCHANGED notline

LineNext == Shift \/ Rest \/ Tabinsert

(***************************************************************************)
(* The history: History of ranger/container/history.py.                    *)
(***************************************************************************)
\* deque.appendleft in place of deque.append
AppendedLeft(s, x, m) ==
    IF m = 0 THEN s
    ELSE IF m # NoMaxlen /\ Len(s) = m THEN <<x>> \o SubSeq(s, 1, Len(s) - 1)
    ELSE <<x>> \o s

\* deque.append on a deque of maxlen m: a full deque drops its first entry
Appended(s, x, m) ==
    IF m = 0 THEN s
    ELSE IF m # NoMaxlen /\ Len(s) = m THEN Append(Tail(s), x)
    ELSE Append(s, x)

\* deque.pop(): the deque without its last entry
Popped(s) == SubSeq(s, 1, Len(s) - 1)

\* every entry is pushed, the current top too
IsNewAlways(h, item) == TRUE

\* len(self.history) == 0 or self.history[-1] != item
IsNew(h, item) == Len(h) = 0 \/ h[Len(h)] # item

\* a call on the History: what it was given, what it returned, whether it
\* raised HistoryEmptyException, and the two stacks before the call
HCall(op, item, n, h) ==
    [op |-> op, item |-> item, n |-> n,
     ret |-> IF h = <<>> THEN NoItem ELSE h[Len(h)],
     raised |-> h = <<>>,
     before |-> [history |-> history, history_forward |-> history_forward]]

NoHCall ==
    [op |-> "none", item |-> NoItem, n |-> 0, ret |-> NoItem, raised |-> FALSE,
     before |-> [history |-> <<>>, history_forward |-> <<>>]]

add(item) ==
    /\ maxlen = NoMaxlen => Len(history) < MaxHistory
    /\ IF IsNew(history, item)
       THEN /\ history' = Appended(history, item, maxlen)
            /\ history_forward' = <<>>
       ELSE UNCHANGED <<history, history_forward>>
    /\ hcall' = [HCall("add", item, 0, <<>>) EXCEPT !.raised = FALSE]
    /\ UNCHANGED maxlen

\* back() that pops the last entry of the back stack too
backToEmpty(op, n) ==
    /\ IF Len(history) > 0
       THEN /\ history_forward' =
                   Appended(history_forward, history[Len(history)], maxlen)
            /\ history' = Popped(history)
       ELSE UNCHANGED <<history, history_forward>>
    /\ hcall' = HCall(op, NoItem, n, history')
    /\ UNCHANGED maxlen

\* back() and what it returns: self.top() of the stack it leaves
back(op, n) ==
    /\ IF Len(history) > 1
       THEN /\ history_forward' =
                   Appended(history_forward, history[Len(history)], maxlen)
            /\ history' = Popped(history)
       ELSE UNCHANGED <<history, history_forward>>
    /\ hcall' = HCall(op, NoItem, n, history')
    /\ UNCHANGED maxlen

\* forward() that leaves the entry on the forward stack as well
forwardKeeping(op, n) ==
    /\ IF Len(history_forward) > 0
       THEN /\ history' =
                   Appended(history, history_forward[Len(history_forward)], maxlen)
            /\ history_forward' = history_forward
       ELSE UNCHANGED <<history, history_forward>>
    /\ hcall' = HCall(op, NoItem, n, history')
    /\ UNCHANGED maxlen

forward(op, n) ==
    /\ IF Len(history_forward) > 0
       THEN /\ history' =
                   Appended(history, history_forward[Len(history_forward)], maxlen)
            /\ history_forward' = Popped(history_forward)
       ELSE UNCHANGED <<history, history_forward>>
    /\ hcall' = HCall(op, NoItem, n, history')
    /\ UNCHANGED maxlen

\* if n > 0: return self.forward(); if n < 0: return self.back(); else None
move(n) ==
    IF n > 0 THEN forward("move", n)
    ELSE IF n < 0 THEN back("move", n)
    ELSE /\ hcall' = [HCall("move", NoItem, n, <<>>) EXCEPT !.raised = FALSE]
         /\ UNCHANGED <<maxlen, history, history_forward>>

\* History(maxlen)
Created(m) ==
    /\ maxlen = m
    /\ history = <<>>
    /\ history_forward = <<>>
    /\ hcall = NoHCall

\* History(): maxlen = None
HistoryInit == Created(NoMaxlen)

Add ==
    /\ \E item \in Items : add(item)
    /\ UNCHANGED nothistory
Back ==
    /\ back("back", 0)
    /\ UNCHANGED nothistory
Forward ==
    /\ forward("forward", 0)
    /\ UNCHANGED nothistory
Move ==
    /\ \E n \in {-1, 0, 1} : move(n)
    /\ UNCHANGED nothistory

HistoryNext == Add \/ Back \/ Forward \/ Move

(***************************************************************************)
(* The tab: Tab of ranger/core/tab.py, with the os.path functions it uses. *)
(***************************************************************************)
\* s.split('/') from character i on; cur: the component being read
RECURSIVE SplitAt(_, _, _, _)
SplitAt(s, i, cur, acc) ==
    IF i > Len(s) THEN Append(acc, cur)
    ELSE IF s[i] = "/" THEN SplitAt(s, i + 1, <<>>, Append(acc, cur))
    ELSE SplitAt(s, i + 1, Append(cur, s[i]), acc)

split(s) == SplitAt(s, 1, <<>>, <<>>)

\* '/'.join(comps)
RECURSIVE Joined(_)
Joined(comps) ==
    IF comps = <<>> THEN <<>>
    ELSE IF Len(comps) = 1 THEN comps[1]
    ELSE comps[1] \o Slash \o Joined(Tail(comps))

\* os.path.join(a, b)
join(a, b) ==
    IF b # <<>> /\ b[1] = "/" THEN b
    ELSE IF a = <<>> \/ a[Len(a)] = "/" THEN a \o b
    ELSE a \o Slash \o b

\* os.path.expanduser(path)
expanduser(path) ==
    IF path # <<>> /\ path[1] = "~" THEN Home \o Tail(path) ELSE path

\* normpath: the number of slashes the result begins with; POSIX keeps two
\* leading slashes and makes one of three or more
InitialSlashes(path) ==
    IF path = <<>> \/ path[1] # "/" THEN 0
    ELSE IF Len(path) >= 2 /\ path[2] = "/" /\ ~(Len(path) >= 3 /\ path[3] = "/")
    THEN 2
    ELSE 1

\* normpath: the loop over the components, which drops '' and '.' and lets
\* '..' take the component before it away
RECURSIVE NewComps(_, _, _, _)
NewComps(comps, i, initial, new) ==
    IF i > Len(comps) THEN new
    ELSE IF comps[i] \in {<<>>, <<".">>} THEN NewComps(comps, i + 1, initial, new)
    ELSE IF \/ comps[i] # <<".", ".">>
            \/ initial = 0 /\ new = <<>>
            \/ new # <<>> /\ new[Len(new)] = <<".", ".">>
    THEN NewComps(comps, i + 1, initial, Append(new, comps[i]))
    ELSE IF new # <<>>
    THEN NewComps(comps, i + 1, initial, SubSeq(new, 1, Len(new) - 1))
    ELSE NewComps(comps, i + 1, initial, new)

\* os.path.normpath(path)
normpath(path) ==
    LET initial == InitialSlashes(path)
        joined == Joined(NewComps(split(path), 1, initial, <<>>))
        result == [i \in 1 .. initial |-> "/"] \o joined
    IN  IF path = <<>> \/ result = <<>> THEN <<".">> ELSE result

\* the names on the way from the root to a normalised absolute path
Names(path) == SelectSeq(path, LAMBDA c : c # "/")

\* os.path.exists(path) in the place of isdir
exists(path) == Names(path) \in Entries

\* os.path.isdir(path)
isdir(path) == Names(path) \in Dirs

\* fm.get_directory(path): the Directory object the cache holds under the
\* path; a Directory is named by that key
get_directory(path) == path

\* the files a Directory lists
Files(dir) ==
    {join(dir, <<e[Len(e)]>>) :
        e \in {f \in Entries : f # <<>> /\ SubSeq(f, 1, Len(f) - 1) = Names(dir)}}

\* for dir in path.split('/'): currentpath = join(currentpath, dir);
\* pathway.append(self.fm.get_directory(currentpath))
RECURSIVE Walked(_, _, _, _)
Walked(comps, i, currentpath, pathway) ==
    IF i > Len(comps) THEN pathway
    ELSE Walked(comps, i + 1, join(currentpath, comps[i]),
                Append(pathway, get_directory(join(currentpath, comps[i]))))

\* the pathway enter_dir builds for the path
Pathway(path) ==
    IF path = Slash THEN <<get_directory(Slash)>>
    ELSE Walked(split(path), 1, Slash, <<>>)

\* the keys of the Directory objects the cache can hold
DirKeys == {Slash, Slash \o Slash, DirA, DirAB}

\* the values of Directory.pointed_obj: a file of the directory, or None
PointedObjs == {NoDir} \cup UNION {Files(d) : d \in DirKeys}

\* the values assigned to Tab.thisfile
ThisFiles == {NoDir, DirA, FileF}

\* the back stacks of the History given to inherit_history
Others == {<<Slash>>, <<Slash, DirA>>}

\* a signal the tab emits through fm.signal_emit: its name, its previous, new
\* and tab attributes (tab 0: the signal has none), and the tab and its
\* History as a handler finds them when the signal is emitted
Event(name, previous, new, who, t, h, f) ==
    [name |-> name, previous |-> previous, new |-> new, tab |-> who,
     seen |-> [tab |-> t, history |-> h, history_forward |-> f]]

\* a call on the Tab: the operation, the history and relative arguments,
\* what it returned, the exception it raised, and the signals it emitted
TCall(op, record, relative, ret, raised, events) ==
    [op |-> op, record |-> record, relative |-> relative,
     ret |-> ret, raised |-> raised, events |-> events]

NoTCall == TCall("none", FALSE, 0, "None", "", <<>>)

\* Tab(path): max_history_size is the maxlen of the History. The call passes
\* unique=False as well, which History.__init__ does not take; the tab is
\* modelled with the History that History(max_history_size) makes
NewTab(path) ==
    [path |-> normpath(join(Slash, expanduser(path))), thisdir |-> NoDir,
     thisfile |-> NoDir, pathway |-> <<>>]

\* normpath(join(self.path, expanduser(path))), for every path of the tab
\* and every path it is asked to enter
Targets ==
    [p \in DirKeys |->
        [a \in Args \cup DirKeys |-> normpath(join(p, expanduser(a)))]]

Target(arg) == Targets[tab.path][arg]

\* the pathway of every path that is a directory
Pathways ==
    [p \in {t \in UNION {{Targets[q][a] : a \in Args \cup DirKeys} :
                              q \in DirKeys} : isdir(t)} |-> Pathway(p)]

\* enter_dir that emits 'cd' before it changes the tab and the History
enteredEmitFirst(op, path, record, relative, chdir, pointed) ==
    LET previous == tab.thisdir
        new_thisdir == get_directory(path)
        call(ret, events) == TCall(op, record, relative, ret, "", events)
    IN  IF ~isdir(path)
        THEN /\ pointed = NoDir
             /\ tab' = tab
             /\ tcall' = call("False", <<>>)
        ELSE IF ~chdir
        THEN /\ pointed = NoDir
             /\ tab' = tab
             /\ tcall' = call("True", <<>>)
        ELSE /\ pointed \in Files(new_thisdir) \cup {NoDir}
             /\ tab' = [tab EXCEPT !.path = path,
                                   !.thisdir = new_thisdir,
                                   !.pathway = Pathways[path],
                                   !.thisfile = pointed]
             /\ tcall' = call("True",
                    <<Event("cd", previous, new_thisdir, 0,
                            tab, history, history_forward)>>)

\* enter_dir from "if not isdir(path)" on, but for self.history.add: the
\* History the call leaves is the caller's (history', history_forward').
\* path: the normalised path; pointed: thisdir.pointed_obj; chdir: whether
\* os.chdir(path) succeeds
entered(op, path, record, relative, chdir, pointed) ==
    LET previous == tab.thisdir
        new_thisdir == get_directory(path)
        call(ret, events) == TCall(op, record, relative, ret, "", events)
    IN  IF ~isdir(path)
        THEN /\ pointed = NoDir
             /\ tab' = tab
             /\ tcall' = call("False", <<>>)
        ELSE IF ~chdir
        THEN /\ pointed = NoDir
             /\ tab' = tab
             /\ tcall' = call("True", <<>>)
        ELSE /\ pointed \in Files(new_thisdir) \cup {NoDir}
             /\ tab' = [tab EXCEPT !.path = path,
                                   !.thisdir = new_thisdir,
                                   !.pathway = Pathways[path],
                                   !.thisfile = pointed]
             /\ tcall' = call("True",
                    <<Event("cd", previous, new_thisdir, 0,
                            tab', history', history_forward')>>)

\* enter_dir that calls self.history.add whatever its history argument is
enter_dirRecorded(arg, record, chdir, pointed) ==
    LET path == Target(arg)
    IN  /\ IF isdir(path) /\ chdir
           THEN add(get_directory(path))
           ELSE UNCHANGED historyvars
        /\ entered("enter_dir", path, record, 0, chdir, pointed)

\* Tab.enter_dir(path, history)
enter_dir(arg, record, chdir, pointed) ==
    LET path == Target(arg)
    IN  /\ IF isdir(path) /\ chdir /\ record
           THEN add(get_directory(path))
           ELSE UNCHANGED historyvars
        /\ entered("enter_dir", path, record, 0, chdir, pointed)

\* Tab.history_go(relative): self.history.move(relative).go(history=False),
\* where Directory.go(history) is fm.enter_dir(self.path, history=history)
history_go(relative, chdir, pointed) ==
    IF history = <<>>
    THEN /\ pointed = NoDir
         /\ chdir
         /\ tcall' = TCall("history_go", FALSE, relative, "None", "", <<>>)
         /\ UNCHANGED <<tab, historyvars>>
    ELSE IF relative = 0
    THEN /\ pointed = NoDir
         /\ chdir
         /\ move(relative)
         /\ tcall' = TCall("history_go", FALSE, relative, "None",
                           "AttributeError", <<>>)
         /\ UNCHANGED tab
    ELSE /\ move(relative)
         /\ entered("history_go", Target(hcall'.ret), FALSE, relative, chdir,
                    pointed)

\* Tab.inherit_history(other_history): History has no attribute rebase
inherit_history(other) ==
    /\ tcall' = TCall("inherit_history", FALSE, 0, "None", "AttributeError",
                      <<>>)
    /\ UNCHANGED <<tab, historyvars>>

\* tab.thisfile = value: _set_thisfile emits 'move', and the handler the tab
\* has bound to it with priority 0.1, _set_thisfile_from_signal, stores the
\* value. stop: a handler called before that one has stopped the signal;
\* current: the tab is fm.thistab, and the handler goes on to read
\* self.thisdir.pointer into self.pointer, which is not part of the state here
set_thisfile(value, stop, current) ==
    LET call(raised, events) ==
            TCall("set_thisfile", FALSE, 0, "None", raised, events)
        signal == Event("move", tab.thisfile, value, 1,
                       tab, history, history_forward)
    IN  /\ IF value = tab.thisfile
           THEN /\ ~stop /\ ~current
                /\ tab' = tab
                /\ tcall' = call("", <<>>)
           ELSE IF stop
           THEN /\ ~current
                /\ tab' = tab
                /\ tcall' = call("", <<signal>>)
           ELSE /\ tab' = [tab EXCEPT !.thisfile = value]
                /\ tcall' = call(IF current /\ tab.thisdir = NoDir
                                 THEN "AttributeError" ELSE "", <<signal>>)
        /\ UNCHANGED historyvars

\* the tab of the file manager, opened at the root
TabInit ==
    /\ tab = NewTab(Slash)
    /\ tcall = NoTCall

\* files: the files the cursor of a directory may be on
EnterDir(files) ==
    /\ \E arg \in Args, record \in BOOLEAN, chdir \in BOOLEAN,
          pointed \in files \cup {NoDir} :
          enter_dir(arg, record, chdir, pointed)
    /\ UNCHANGED nottab
HistoryGo ==
    /\ \E relative \in {-1, 0, 1}, chdir \in BOOLEAN,
          pointed \in {DirA, NoDir} :
          history_go(relative, chdir, pointed)
    /\ UNCHANGED nottab
InheritHistory ==
    /\ \E other \in Others : inherit_history(other)
    /\ UNCHANGED nottab
SetThisfile ==
    /\ \E value \in ThisFiles, stop \in BOOLEAN, current \in BOOLEAN :
          set_thisfile(value, stop, current)
    /\ UNCHANGED nottab

TabNext == EnterDir({DirA}) \/ HistoryGo \/ InheritHistory

ThisfileNext == EnterDir(PointedObjs) \/ SetThisfile

(***************************************************************************)
(* The tab table: Actions.tab_open, tab_close, tab_move and tab_new.       *)
(***************************************************************************)
\* the names of the tabs
TabNames == 1 .. MaxTabs
\* no path: the value of a name that is not in self.tabs, and path=None
NoPath == "nopath"

\* the tab table with what a call has done so far: the exception raised, and
\* the number of 'tab.change' signals emitted
TabsState ==
    [tabs |-> tabs, current_tab |-> current_tab, cwd |-> cwd,
     raised |-> "", changes |-> 0]

\* sorted(self.tabs)
TabList(t) ==
    LET names == {n \in TabNames : t[n] # NoPath}
        RECURSIVE Ascending(_)
        Ascending(ns) ==
            IF ns = {} THEN <<>>
            ELSE LET least == CHOOSE n \in ns : \A o \in ns : n <= o
                 IN  <<least>> \o Ascending(ns \ {least})
    IN  Ascending(names)

\* tablist.index(self.current_tab): 0 when the name is not in the list
Index(tablist, name) ==
    IF \E i \in 1 .. Len(tablist) : tablist[i] = name
    THEN CHOOSE i \in 1 .. Len(tablist) : tablist[i] = name
    ELSE 0

\* self._update_current_tab(): self.tabs[self.current_tab] = self.env.cwd.path
UpdateCurrentTab(s) == [s EXCEPT !.tabs[s.current_tab] = s.cwd]

\* self.enter_dir(path): env.enter_dir. ok: the path is a directory and
\* the environment enters it; it then emits 'cd', on which the file manager
\* calls _update_current_tab. A path that is rejected changes nothing
EnterDirOf(s, path, ok) ==
    IF ok THEN UpdateCurrentTab([s EXCEPT !.cwd = path]) ELSE s

\* tab_open(name, path) from the state s
Opened(s, name, path, ok) ==
    LET do_emit_signal == name # s.current_tab
        named == [s EXCEPT !.current_tab = name]
        done == IF path # NoPath \/ s.tabs[name] # NoPath
                THEN EnterDirOf(named,
                         IF path # NoPath THEN path ELSE s.tabs[name], ok)
                ELSE UpdateCurrentTab(named)
    IN  IF do_emit_signal THEN [done EXCEPT !.changes = @ + 1] ELSE done

\* tab_move(offset) from the state s
Moved(s, offset, ok) ==
    LET tablist == TabList(s.tabs)
        current_index == Index(tablist, s.current_tab)
        newtab == tablist[((current_index - 1 + offset) % Len(tablist)) + 1]
    IN  IF tablist = <<>> THEN [s EXCEPT !.raised = "AssertionError"]
        ELSE IF current_index = 0 THEN [s EXCEPT !.raised = "ValueError"]
        ELSE IF newtab # s.current_tab
        THEN Opened(s, newtab, NoPath, ok)
        ELSE s

\* tab_close(name) from the state s; name 0: name=None
Closed(s, arg, ok) ==
    LET name == IF arg = 0 THEN s.current_tab ELSE arg
        tablist == TabList(s.tabs)
        direction == IF name = tablist[Len(tablist)] THEN -1 ELSE 1
        moved == Moved(s, direction, ok)
        deleted(t) ==
            IF t.tabs[name] # NoPath THEN [t EXCEPT !.tabs[name] = NoPath]
            ELSE t
    IN  IF name = s.current_tab
        THEN IF tablist = <<>> THEN [s EXCEPT !.raised = "AssertionError"]
             ELSE IF moved.raised # "" THEN moved
             ELSE IF moved.current_tab = s.current_tab THEN moved
             ELSE deleted(moved)
        ELSE deleted(s)

\* tab_new(path) from the state s
New(s, path, ok) ==
    IF \E i \in TabNames : s.tabs[i] = NoPath
    THEN Opened(s, CHOOSE i \in TabNames :
                       /\ s.tabs[i] = NoPath
                       /\ \A j \in TabNames : s.tabs[j] = NoPath => i <= j,
                path, ok)
    ELSE s

\* a call leaves the tab table as the state s, and is recorded
Left(op, name, s) ==
    /\ tabs' = s.tabs
    /\ current_tab' = s.current_tab
    /\ cwd' = s.cwd
    /\ tabscall' = [op |-> op, name |-> name, raised |-> s.raised,
                    changes |-> s.changes]

tab_open(name, path, ok) ==
    Left("tab_open", name, Opened(TabsState, name, path, ok))
tab_move(offset, ok) ==
    Left("tab_move", offset, Moved(TabsState, offset, ok))
tab_close(name, ok) ==
    Left("tab_close", name, Closed(TabsState, name, ok))
tab_new(path, ok) ==
    Left("tab_new", 0, New(TabsState, path, ok))

\* the file manager after its start: tab 1 is the tab of the start directory
TabsInit ==
    /\ tabs = [n \in TabNames |-> IF n = 1 THEN "p1" ELSE NoPath]
    /\ current_tab = 1
    /\ cwd = "p1"
    /\ tabscall = [op |-> "none", name |-> 0, raised |-> "", changes |-> 0]

TabOpen ==
    /\ \E name \in TabNames, path \in Paths \cup {NoPath}, ok \in BOOLEAN :
          /\ path = NoPath /\ tabs[name] = NoPath => ok
          /\ tab_open(name, path, ok)
    /\ UNCHANGED nottabs
TabMove ==
    /\ \E offset \in {-1, 1}, ok \in BOOLEAN : tab_move(offset, ok)
    /\ UNCHANGED nottabs
TabClose ==
    /\ \E name \in {0} \cup TabNames, ok \in BOOLEAN :
          tab_close(name, ok)
    /\ UNCHANGED nottabs
TabNew ==
    /\ \E path \in Paths \cup {NoPath}, ok \in BOOLEAN :
          tab_new(path, ok)
    /\ UNCHANGED nottabs

TabsNext == TabOpen \/ TabMove \/ TabClose \/ TabNew

(***************************************************************************)
(* The console: Console.tab, type_key, open and close.                     *)
(***************************************************************************)
\* the candidates of a completion, and the texts the console is opened with
Candidates == {<<"a", "a">>, <<"a", "b">>}
Typed == {<<>>, <<"a">>}
\* what _get_tab returns: None, a string, or an iterable of candidates
TabResults ==
    {[kind |-> "None", str |-> <<>>, list |-> <<>>]}
    \cup {[kind |-> "str", str |-> c, list |-> <<>>] : c \in Candidates}
    \cup {[kind |-> "iter", str |-> <<>>, list |-> l] :
             l \in UNION {[1 .. n -> Candidates] : n \in 0 .. MaxCandidates}}
\* tab_deque = None
NoDeque == <<>>
\* no cycle, after the operation op
CycleEnded(op) ==
    [op |-> op, origin |-> <<>>, candidates |-> <<>>, presses |-> 0]

\* deque.rotate(n): n steps to the right
RotatedRight(d, n) == [i \in 1 .. Len(d) |-> d[((i - 1 - n) % Len(d)) + 1]]

\* deque.rotate(-n): n steps to the left
Rotated(d, n) == [i \in 1 .. Len(d) |-> d[((i - 1 + n) % Len(d)) + 1]]

\* close(): the line is cleared and the tab_deque dropped
ConsoleClosed(c) ==
    [c EXCEPT !.line = <<>>, !.pos = 0, !.tab_deque = NoDeque,
              !.visible = FALSE]

\* on_line_change(): a command that is quick() is executed and the console
\* closed
on_line_change(c, quick) == IF quick THEN ConsoleClosed(c) ELSE c

\* the console after tab(n), when _get_tab returns tab_result
Tabbed(c, n, tab_result, quick) ==
    LET got_tab ==
            IF c.tab_deque # NoDeque \/ tab_result.kind = "None" THEN c
            ELSE IF tab_result.kind = "str"
            THEN on_line_change([c EXCEPT !.line = tab_result.str,
                                          !.pos = Len(tab_result.str)], quick)
            ELSE [c EXCEPT !.tab_deque = <<c.line>> \o tab_result.list]
        rotated == Rotated(got_tab.tab_deque, n)
    IN  IF got_tab.tab_deque = NoDeque THEN got_tab
        ELSE on_line_change([got_tab EXCEPT !.tab_deque = rotated,
                                            !.line = rotated[1],
                                            !.pos = Len(rotated[1])], quick)

\* tab(n); _get_tab is called only when there is no tab_deque
tab_key(n, tab_result, quick) ==
    /\ console.visible
    /\ console.tab_deque # NoDeque =>
          /\ tab_result.kind = "None"
          /\ cycle.presses + n \in -MaxPresses .. MaxPresses
    /\ console' = Tabbed(console, n, tab_result, quick)
    /\ cycle' =
          IF console'.tab_deque = NoDeque THEN CycleEnded("tab")
          ELSE IF console.tab_deque = NoDeque
          THEN [op |-> "tab", origin |-> console.line,
                candidates |-> tab_result.list, presses |-> n]
          ELSE [cycle EXCEPT !.presses = @ + n]

\* type_key(key)
type_key(key, quick) ==
    /\ console.visible
    /\ Len(console.line) < MaxLine
    /\ console' =
          on_line_change(
              [console EXCEPT
                  !.tab_deque = NoDeque,
                  !.line = SubSeq(console.line, 1, console.pos) \o <<key>>
                           \o SubSeq(console.line, console.pos + 1,
                                     Len(console.line)),
                  !.pos = @ + 1], quick)
    /\ cycle' = CycleEnded("type_key")

\* open(string)
open(string) ==
    /\ console' = [line |-> string, pos |-> Len(string),
                   tab_deque |-> NoDeque, visible |-> TRUE]
    /\ cycle' = CycleEnded("open")

ConsoleInit ==
    /\ console = [line |-> <<>>, pos |-> 0, tab_deque |-> NoDeque,
                  visible |-> FALSE]
    /\ cycle = CycleEnded("")

TabKey ==
    /\ \E n \in {-1, 1}, tab_result \in TabResults, quick \in BOOLEAN :
          tab_key(n, tab_result, quick)
    /\ UNCHANGED notconsole
TypeKey ==
    /\ \E key \in {"a"}, quick \in BOOLEAN : type_key(key, quick)
    /\ UNCHANGED notconsole
Open ==
    /\ \E string \in Typed : open(string)
    /\ UNCHANGED notconsole

ConsoleNext == TabKey \/ TypeKey \/ Open

(***************************************************************************)
(* Moving around: Actions.move and Actions.traverse, on a directory tree.  *)
(***************************************************************************)
\* the files and directories of a tree; Root is the directory '/'
Root == 0
Nodes == 1 .. MaxNodes
\* cf = None: the directory is empty
NoNode == -1
\* a tree: every node is a file or a directory and lies in a directory that
\* is the root or a node before it
Trees ==
    {t \in [kind : [Nodes -> {"dir", "file"}],
            parent : [Nodes -> {Root} \cup Nodes]] :
        \A n \in Nodes :
            /\ t.parent[n] < n
            /\ t.parent[n] # Root => t.kind[t.parent[n]] = "dir"}

RECURSIVE Ascending(_)
\* a set of nodes, sorted
Ascending(S) ==
    IF S = {} THEN <<>>
    ELSE LET least == CHOOSE n \in S : \A o \in S : n <= o
         IN  <<least>> \o Ascending(S \ {least})

\* the files of a Directory, in their order
Listing(t, d) == Ascending({n \in Nodes : t.parent[n] = d})

\* Directory.pointed_obj: the file at the pointer, which is env.cf
PointedObj(t, e) ==
    LET files == Listing(t, e.cwd)
    IN  IF files = <<>> THEN NoNode ELSE files[e.pointer[e.cwd] + 1]

RECURSIVE Ancestry(_, _)
\* a directory and the directories above it, without the root
Ancestry(t, d) == IF d = Root THEN {} ELSE {d} \cup Ancestry(t, t.parent[d])

\* env.enter_dir(d): d becomes env.cwd, and the pointer of every directory
\* above it is put on the entry that leads to it
EnvEntered(t, e, d) ==
    [e EXCEPT
        !.cwd = d,
        !.pointer = [x \in {Root} \cup Nodes |->
            IF \E c \in Ancestry(t, d) : t.parent[c] = x
            THEN Cardinality({n \in Nodes : /\ t.parent[n] = x
                                            /\ n \in Nodes
                                            /\ \E c \in Ancestry(t, d) :
                                                  t.parent[c] = x /\ n < c})
            ELSE e.pointer[x]]]

\* move(left=1): env.enter_dir('..'), which at the root is the root
MovedLeft(t, e) ==
    EnvEntered(t, e, IF e.cwd = Root THEN Root ELSE t.parent[e.cwd])

\* move(down=1): the pointer goes one entry down, and not below the last
MovedDown(t, e) ==
    LET last_index == Len(Listing(t, e.cwd)) - 1
        newpos == IF e.pointer[e.cwd] + 1 > last_index
                  THEN (IF last_index < 0 THEN 0 ELSE last_index)
                  ELSE e.pointer[e.cwd] + 1
    IN  [e EXCEPT !.pointer = [x \in {Root} \cup Nodes |->
                                  IF x = e.cwd THEN newpos ELSE e.pointer[x]]]

\* move(right=1): env.enter_dir(cf), which a file is not entered by
MovedRight(t, e) ==
    LET pointed_obj == PointedObj(t, e)
    IN  IF pointed_obj # NoNode /\ t.kind[pointed_obj] = "dir"
        THEN EnvEntered(t, e, pointed_obj)
        ELSE e

RECURSIVE Climbed(_, _)
\* while True: self.move(left=1); cwd = self.env.cwd;
\* if cwd.pointer < len(cwd) - 1: break; if cwd.path == '/': break
Climbed(t, e) ==
    LET up == MovedLeft(t, e)
    IN  IF up.pointer[up.cwd] < Len(Listing(t, up.cwd)) - 1 THEN up
        ELSE IF up.cwd = Root THEN up
        ELSE Climbed(t, up)

\* a traverse: where it left env, whether it entered a directory, and the
\* exception it raised
Traversal(e, has_entered, raised) ==
    [env |-> e, entered |-> has_entered, raised |-> raised]

RECURSIVE Traversed(_, _, _)
\* traverse() from env e; calls: the states of env in which the calls of
\* traverse that have not returned were made. A call made in the state of
\* one of them repeats it without end, until the interpreter's recursion
\* limit raises RuntimeError
Traversed(t, e, calls) ==
    LET pointed_obj == PointedObj(t, e)
    IN  IF e \in calls THEN Traversal(e, FALSE, "RuntimeError")
        ELSE IF pointed_obj # NoNode /\ t.kind[pointed_obj] = "dir"
        THEN Traversal(EnvEntered(t, e, pointed_obj), TRUE, "")
        ELSE IF e.pointer[e.cwd] >= Len(Listing(t, e.cwd)) - 1
        THEN Traversed(t, MovedDown(t, Climbed(t, e)), calls \cup {e})
        ELSE Traversed(t, MovedDown(t, e), calls \cup {e})

\* a call of move or traverse
TravCall(op, from, has_entered, raised) ==
    [op |-> op, from |-> from, entered |-> has_entered, raised |-> raised]

traverse ==
    LET done == Traversed(tree, env, {})
    IN  /\ env' = done.env
        /\ travcall' = TravCall("traverse", env, done.entered, done.raised)
        /\ UNCHANGED tree

\* move(down=1), move(left=1), move(right=1)
move_to(direction) ==
    /\ env' = CASE direction = "down" -> MovedDown(tree, env)
                [] direction = "left" -> MovedLeft(tree, env)
                [] OTHER -> MovedRight(tree, env)
    /\ travcall' = TravCall(direction, env, FALSE, "")
    /\ UNCHANGED tree

\* the file manager at the root of the one-directory tree
TraverseInit ==
    /\ tree = [kind |-> [n \in Nodes |-> "file"],
               parent |-> [n \in Nodes |-> Root]]
    /\ env = [cwd |-> Root, pointer |-> [x \in {Root} \cup Nodes |-> 0]]
    /\ travcall = TravCall("none", env, FALSE, "")

\* the file manager at the root of any tree
OnAnyTree ==
    /\ tree \in Trees
    /\ env = [cwd |-> Root, pointer |-> [x \in {Root} \cup Nodes |-> 0]]
    /\ travcall = TravCall("none", env, FALSE, "")

Traverse ==
    /\ traverse
    /\ UNCHANGED nottraverse
MoveTo ==
    /\ \E direction \in {"down", "left", "right"} : move_to(direction)
    /\ UNCHANGED nottraverse

TraverseNext == Traverse \/ MoveTo

Init ==
    PreviewInit /\ SignalInit /\ CommandInit /\ LineInit /\ HistoryInit /\ TabInit /\ TabsInit
    /\ ConsoleInit /\ TraverseInit

\* a History of any maxlen
HistoryStart ==
    /\ PreviewInit /\ SignalInit /\ CommandInit /\ LineInit /\ TabInit /\ TabsInit
    /\ ConsoleInit /\ TraverseInit
    /\ \E m \in Maxlens : Created(m)

HistorySpec == HistoryStart /\ [][HistoryNext]_vars

LineStart ==
    /\ PreviewInit /\ SignalInit /\ CommandInit /\ HistoryInit /\ TabInit /\ TabsInit
    /\ ConsoleInit /\ TraverseInit
    /\ LineTyped

\* a tab with any of the values of settings.max_history_size
TabStart ==
    /\ PreviewInit /\ SignalInit /\ CommandInit /\ LineInit /\ TabInit /\ TabsInit
    /\ ConsoleInit /\ TraverseInit
    /\ \E m \in HistorySizes : Created(m)

TabSpec == TabStart /\ [][TabNext]_vars

\* a tab that keeps no history
ThisfileStart ==
    /\ PreviewInit /\ SignalInit /\ CommandInit /\ LineInit /\ TabInit /\ TabsInit
    /\ ConsoleInit /\ TraverseInit
    /\ Created(0)

ThisfileSpec == ThisfileStart /\ [][ThisfileNext]_vars

TabsSpec == Init /\ [][TabsNext]_vars

ConsoleSpec == Init /\ [][ConsoleNext]_vars

\* a file manager on any directory tree
TraverseStart ==
    /\ PreviewInit /\ SignalInit /\ CommandInit /\ LineInit /\ HistoryInit
    /\ TabInit /\ TabsInit /\ ConsoleInit
    /\ OnAnyTree

TraverseSpec == TraverseStart /\ [][TraverseNext]_vars

LineSpec == LineStart /\ [][LineNext]_vars

CommandSpec == Init /\ [][CommandNext]_vars

SignalBind(names, weaks) ==
    /\ \E name \in names, priority \in PriorityArgs, weak \in weaks,
          pass_signal \in BOOLEAN : signal_bind(name, priority, weak, pass_signal)
    /\ UNCHANGED notsignal
SignalUnbind ==
    /\ \E i \in 1 .. Len(made) : signal_unbind(made[i])
    /\ UNCHANGED notsignal
Expire ==
    /\ \E i \in 1 .. Len(made) : expire(made[i])
    /\ UNCHANGED notsignal
SignalEmit ==
    /\ frames = <<>>
    /\ \E name \in SignalNames : signal_emit(name)
    /\ UNCHANGED notsignal
Propagate ==
    /\ \E stop \in BOOLEAN : propagate(stop)
    /\ UNCHANGED notsignal

\* a handler of "move" is bound, weakly or not, by a function that takes no
\* signal
WeakBind ==
    /\ \E weak \in BOOLEAN : signal_bind("move", PriorityMin, weak, FALSE)
    /\ UNCHANGED notsignal
\* "move" is emitted, by the program or by the handler that the innermost
\* signal_emit has called last and that is still running
NestedEmit ==
    /\ Len(frames) < MaxDepth
    /\ frames # <<>> =>
          LET f == frames[Len(frames)]
          IN  /\ f.i > 1
              /\ f.called # <<>>
              /\ f.called[Len(f.called)] = f.handlers[f.i - 1]
    /\ signal_emit("move")
    /\ UNCHANGED notsignal

\* weakly and strongly bound handlers of one signal, the targets of the weak
\* ones destroyed at any time; handlers emit the signal again
WeakNext ==
    \/ WeakBind
    \/ Expire
    \/ NestedEmit
    \/ Propagate

WeakSpec == Init /\ [][WeakNext]_vars

\* handlers of one signal, bound to functions that stay alive; no handler
\* emits a signal
SignalNext ==
    \/ SignalBind({"move"}, {FALSE})
    \/ SignalUnbind
    \/ SignalEmit
    \/ Propagate

SignalSpec == Init /\ [][SignalNext]_vars

\* previews of one file in every size
PreviewNext ==
    \/ UpdatePreview
    \/ GetPreview({"p1"}, Widths, Heights)
    \/ OnAfter
    \/ OnDestroy
    \/ Scroll

PreviewSpec == Init /\ [][PreviewNext]_vars

\* previews of every file in one size
CacheNext ==
    \/ UpdatePreview
    \/ GetPreview(Paths, {80}, {24})
    \/ OnAfter
    \/ OnDestroy
    \/ Scroll

CacheSpec == Init /\ [][CacheNext]_vars

(***************************************************************************)
(* Properties of the preview cache.                                        *)
(***************************************************************************)
\* the jobs of a path that the loader holds
JobsOf(path) == {j \in jobs : j.path = path}

\* what the cache holds for each path: which dict, and its fields
Cache ==
    [p \in Paths |->
        [id |-> previews[p],
         entry |-> IF previews[p] = NoDict THEN NewDict ELSE dicts[previews[p]]]]

\* the dicts the jobs of the loader fill
JobData == [j \in jobs |-> dicts[j.data]]

\* a job of the path is outstanding and the dict it fills is still the
\* entry of the path
Outstanding(path) == \E j \in jobs : j.path = path /\ j.data = previews[path]

\* the value under the first of the keys ks that the dict has, False if none
RECURSIVE FirstPresent(_, _)
FirstPresent(content, ks) ==
    IF ks = <<>> THEN False
    ELSE IF content[Head(ks)] # Absent THEN content[Head(ks)]
    ELSE FirstPresent(content, Tail(ks))

CodeOrder(w, h) == << <<ANY, ANY>>, <<w, ANY>>, <<ANY, h>>, <<w, h>> >>
SpecOrder(w, h) == << <<w, h>>, <<ANY, h>>, <<w, ANY>>, <<ANY, ANY>> >>

\* how many of the four keys that serve a request of w x h the dict has
Hits(content, w, h) ==
    Cardinality({k \in {<<w, h>>, <<ANY, h>>, <<w, ANY>>, <<ANY, ANY>>} :
                    content[k] # Absent})

\* C1: in every reachable state each path has at most one preview job that
\* was submitted and has not completed
C1_OneJobPerPath == \A p \in Paths : Cardinality(JobsOf(p)) <= 1

\* C2: a get_preview made while the job of an earlier get_preview of the path
\* is outstanding and the entry was not invalidated returns None (pending),
\* changes nothing, and leaves exactly one job submitted for the entry
C2_SecondGetPending ==
    [][\A p \in Paths, w \in Widths, h \in Heights :
          (Outstanding(p) /\ get_preview(p, w, h)) =>
              /\ last'.ret = None
              /\ ~last'.submitted
              /\ Cache' = Cache
              /\ jobs' = jobs
              /\ JobData' = JobData
              /\ submits' = submits
              /\ Cardinality({j \in jobs' : j.path = p /\ j.data = previews'[p]}) = 1]_vars

C2_Witness ==
    /\ last.op = "get_preview"
    /\ ~last.submitted
    /\ last.ret = None
    /\ Outstanding(last.path)
    /\ \E j \in jobs : /\ j.path = last.path /\ j.data = previews[last.path]
                       /\ j.width = last.width /\ j.height = last.height

\* C3 (as the specification states it): with more than one of the keys (w,h),
\* (-1,h), (w,-1), (-1,-1) in an entry that is not loading, get_preview(path, w, h)
\* returns the value of the first present in the order (w,h), (-1,h), (w,-1), (-1,-1)
C3_SpecOrder ==
    [][\A p \in Paths, w \in Widths, h \in Heights :
          (/\ previews[p] # NoDict
           /\ ~dicts[previews[p]].loading
           /\ Hits(dicts[previews[p]].content, w, h) > 1
           /\ get_preview(p, w, h)) =>
              last'.ret = FirstPresent(dicts[previews[p]].content, SpecOrder(w, h))]_vars

\* C3 (amended): with more than one of those keys in an entry that is not
\* loading, get_preview(path, w, h) returns the value of the first present in
\* the order (-1,-1), (w,-1), (-1,h), (w,h), and submits no job
C3_CodeOrder ==
    [][\A p \in Paths, w \in Widths, h \in Heights :
          (/\ previews[p] # NoDict
           /\ ~dicts[previews[p]].loading
           /\ Hits(dicts[previews[p]].content, w, h) > 1
           /\ get_preview(p, w, h)) =>
              /\ last'.ret = FirstPresent(dicts[previews[p]].content, CodeOrder(w, h))
              /\ ~last'.submitted
              /\ jobs' = jobs]_vars

C3_Witness ==
    /\ last.op = "get_preview"
    /\ previews[last.path] # NoDict
    /\ ~dicts[previews[last.path]].loading
    /\ Hits(dicts[previews[last.path]].content, last.width, last.height) > 1
    /\ last.ret = FirstPresent(dicts[previews[last.path]].content,
                               CodeOrder(last.width, last.height))
    /\ last.ret # FirstPresent(dicts[previews[last.path]].content,
                               SpecOrder(last.width, last.height))

\* the completion callback runs for the job with an exit code no branch names
OnAfterOther(job) == on_after(job, 6, TRUE)

\* C4 (as the specification states it): a completion callback with an exit code
\* outside 0..5 adds no content key, and the next get_preview for the path
\* submits a new job
C4_Retried ==
    [][/\ \A job \in jobs :
             OnAfterOther(job) => dicts'[job.data].content = dicts[job.data].content
       /\ \A p \in Paths, w \in Widths, h \in Heights :
             (/\ last.op = "on_after" /\ last.exit = 6 /\ last.path = p
              /\ get_preview(p, w, h)) => last'.submitted]_vars

\* C4 (amended): a completion callback with an exit code outside 0..5 stores
\* None under (-1,-1) in the entry the job was filling and changes no other
\* key; the next get_preview for the path, if that entry is still the entry of
\* the path, returns None and submits no job
C4_NotRetried ==
    [][/\ \A job \in jobs :
             OnAfterOther(job) =>
                 /\ dicts'[job.data].content =
                        [dicts[job.data].content EXCEPT ![<<ANY, ANY>>] = None]
                 /\ dicts'[job.data].foundpreview = True
       /\ \A p \in Paths, w \in Widths, h \in Heights :
             (/\ last.op = "on_after" /\ last.exit = 6 /\ last.path = p
              /\ previews[p] = last.data
              /\ get_preview(p, w, h)) =>
                 /\ last'.ret = None
                 /\ ~last'.submitted
                 /\ jobs' = jobs
                 /\ submits' = submits]_vars

\* a get_preview has answered from an entry whose job ended with an unknown
\* exit code, the callback having run to its end
C4_Witness ==
    /\ last.op = "get_preview"
    /\ ~last.submitted
    /\ last.ret = None
    /\ previews[last.path] # NoDict
    /\ ~dicts[previews[last.path]].loading
    /\ dicts[previews[last.path]].content[<<ANY, ANY>>] = None
    /\ dicts[previews[last.path]].foundpreview = True

\* C5: the completion callback of a job of get_preview(path, w, h) stores the
\* captured output under (w,h) for exit code 0, (-1,h) for 3, (w,-1) for 4 and
\* (-1,-1) for 5; exit code 1 stores None under (-1,-1) and sets foundpreview
\* to false; after every other exit code foundpreview is true
C5_StoredByExitCode ==
    [][\A job \in jobs, o \in Outcomes :
          on_after(job, o[1], o[2]) =>
              LET d == dicts'[job.data]
                  captured == Stdout(job.id)
              IN  /\ o[1] = 0 => d.content[<<job.width, job.height>>] = captured
                  /\ o[1] = 3 => d.content[<<ANY, job.height>>] = captured
                  /\ o[1] = 4 => d.content[<<job.width, ANY>>] = captured
                  /\ o[1] = 5 => d.content[<<ANY, ANY>>] = captured
                  /\ o[1] = 1 => /\ d.content[<<ANY, ANY>>] = None
                                 /\ d.foundpreview = False
                  /\ o[1] # 1 => d.foundpreview = True]_vars

C5_Witness ==
    /\ last.op = "on_after"
    /\ last.exit = 3
    /\ dicts[last.data].content[<<ANY, last.height>>] = Stdout(last.job)
    /\ dicts[last.data].content[<<last.width, last.height>>] = Absent
    /\ dicts[last.data].foundpreview = True

\* C6: after a completion callback with exit code 3 for the job of
\* get_preview(p, w, h) the entry holds the output under (-1,h), and a
\* following get_preview(p, w2, h) with another width returns that output and
\* submits no job
C6_WildcardServesOtherWidth ==
    [][/\ \A job \in jobs :
             on_after(job, 3, TRUE) =>
                 dicts'[job.data].content[<<ANY, job.height>>] = Stdout(job.id)
       /\ \A w2 \in Widths :
             (/\ last.op = "on_after" /\ last.exit = 3 /\ w2 # last.width
              /\ previews[last.path] = last.data
              /\ get_preview(last.path, w2, last.height)) =>
                 /\ last'.ret = Stdout(last.job)
                 /\ ~last'.submitted]_vars

\* C7: when the completion callback of a job ends, for every exit code and
\* whatever the pointed file is, the entry the job was filling has loading = false
C7_LoadingCleared ==
    last.op = "on_after" => ~dicts[last.data].loading

\* C8: the completion callback of a job whose entry update_preview deleted
\* raises no error and leaves the cache without an entry for the path
C8_DroppedSilently ==
    [][\A job \in jobs, o \in Outcomes :
          (/\ last.op = "update_preview" /\ last.path = job.path
           /\ last.ret = None
           /\ on_after(job, o[1], o[2])) =>
              /\ ~last'.raised
              /\ previews'[job.path] = NoDict]_vars

\* C9: update_preview(path) removes the entry of the path and leaves the
\* entry of every other path as it is; it returns False when there was no
\* entry; a get_preview of a path that has no entry submits a job
C9_UpdatePreview ==
    [][/\ \A p \in Paths :
             update_preview(p) =>
                 /\ previews'[p] = NoDict
                 /\ \A q \in Paths \ {p} : Cache'[q] = Cache[q]
                 /\ previews[p] = NoDict => last'.ret = False
                 /\ jobs' = jobs
       /\ \A p \in Paths, w \in Widths, h \in Heights :
             (previews[p] = NoDict /\ get_preview(p, w, h)) =>
                 /\ last'.submitted
                 /\ \E j \in jobs' \ jobs :
                       /\ j.path = p /\ j.width = w /\ j.height = h
                       /\ j.data = previews'[p]]_vars

\* update_preview has removed the entry of a path while another path had one
C9_Witness ==
    /\ last.op = "update_preview"
    /\ last.ret = None
    /\ previews[last.path] = NoDict
    /\ \E q \in Paths \ {last.path} :
          previews[q] # NoDict /\ dicts[previews[q]].loading

(***************************************************************************)
(* Properties of the signal dispatcher.                                    *)
(***************************************************************************)
\* the handlers were called in the order of their priority, highest first,
\* and those of one priority in the order they were bound
InPriorityOrder(called) ==
    \A i, j \in 1 .. Len(called) :
        i < j => \/ called[i].priority > called[j].priority
                 \/ /\ called[i].priority = called[j].priority
                    /\ called[i].id < called[j].id

\* C10: signal_emit calls a handler of higher priority before one of lower
\* priority, whatever the order of the signal_bind calls, and handlers of
\* equal priority in the order they were bound
C10_PriorityOrder ==
    /\ \A k \in 1 .. Len(frames) : InPriorityOrder(frames[k].called)
    /\ InPriorityOrder(emitted.called)

\* an emit has called three handlers, one bound last and called first, two of
\* one priority
C10_Witness ==
    /\ emitted.ret = "True"
    /\ Len(emitted.called) = 3
    /\ emitted.called[1].id = 3
    /\ emitted.called[2].priority = emitted.called[3].priority
    /\ emitted.called[1].priority > emitted.called[2].priority

\* the innermost signal_emit in progress
Top == frames[Len(frames)]

\* C11: signal_emit returns False exactly when a handler it called has called
\* stop() on the signal, and then the stopping handler is the last one called;
\* it returns True when all handlers ran without stopping, and when the
\* signal has no handlers
C11_StopReturnsFalse ==
    [][/\ \A stop \in BOOLEAN :
             (frames # <<>> /\ propagate(stop)) =>
                 LET reached == Top.i <= Len(Top.handlers)
                     stopping == reached /\ stop /\ Top.handlers[Top.i].pass_signal
                 IN  /\ stopping =>
                            /\ emitted'.ret = "False"
                            /\ emitted'.called = Append(Top.called, Top.handlers[Top.i])
                            /\ frames' = SubSeq(frames, 1, Len(frames) - 1)
                     /\ emitted'.ret = "False" => stopping
                     /\ ~reached => emitted'.ret = "True"
                     /\ (reached /\ ~stopping) => emitted'.ret = "none"
       /\ \A name \in SignalNames :
             (frames = <<>> /\ HandlersOf(name) = <<>> /\ signal_emit(name)) =>
                 /\ emitted'.ret = "True"
                 /\ emitted'.called = <<>>
                 /\ frames' = <<>>]_vars

\* an emit was stopped by the second of three handlers
C11_Witness ==
    /\ emitted.ret = "False"
    /\ Len(emitted.called) = 2
    /\ Len(HandlersOf(emitted.name)) = 3
    /\ emitted.called[2].pass_signal

\* the handlers of s, as a set of their numbers
Ids(s) == {s[i].id : i \in 1 .. Len(s)}

\* C12: signal_emit calls the handlers of the list as it was when the emit
\* started, in that order: a handler bound during the emit is not called in
\* it, a handler unbound during it is still called; the binds and unbinds made
\* during the emit change the list of the signal, which stays sorted by
\* descending priority
C12_SnapshotDispatch ==
    [][/\ \A name \in SignalNames :
             (HandlersOf(name) # <<>> /\ signal_emit(name)) =>
                 frames' = Append(frames, [name |-> name, handlers |-> signals[name],
                                           i |-> 1, called |-> <<>>])
       /\ (frames # <<>> /\ frames' # <<>> /\ Len(frames') >= Len(frames)) =>
             /\ frames'[Len(frames)].handlers = Top.handlers
             /\ frames'[Len(frames)].called =
                   SubSeq(Top.handlers, 1, Len(frames'[Len(frames)].called))
       /\ \A stop \in BOOLEAN :
             (frames # <<>> /\ propagate(stop)) =>
                 /\ emitted'.ret = "True" => emitted'.called = Top.handlers
                 /\ emitted'.ret = "False" =>
                        emitted'.called = SubSeq(Top.handlers, 1, Len(emitted'.called))
       /\ (frames # <<>> /\ Len(made') = Len(made) + 1) =>
             \* a signal_bind made during the emit
             LET name == made'[Len(made')].signal_name
             IN  /\ frames' = frames
                 /\ Ids(signals'[name]) = Ids(HandlersOf(name)) \cup {Len(made')}
                 /\ InPriorityOrder(signals'[name])
       /\ \A i \in 1 .. Len(made) :
             (frames # <<>> /\ signal_unbind(made[i])) =>
                 /\ frames' = frames
                 /\ Ids(HandlersOf(made[i].signal_name)') =
                        Ids(HandlersOf(made[i].signal_name)) \ {i}
                 /\ InPriorityOrder(HandlersOf(made[i].signal_name)')]_vars

\* an emit has returned after calling a handler that was unbound during it and
\* without calling a handler that was bound during it
C12_Witness ==
    /\ emitted.ret = "True"
    /\ Ids(emitted.called) \ Ids(HandlersOf(emitted.name)) # {}
    /\ Ids(HandlersOf(emitted.name)) \ Ids(emitted.called) # {}

\* C13: when signal_emit reaches a weakly bound handler whose target was
\* destroyed, it does not call the handler, removes it from the list of the
\* signal and goes on with the next handler, and no error leaves signal_emit;
\* also when the emits of the signal are nested
C13_ExpiredHandlerDropped ==
    [][\A stop \in BOOLEAN :
          (/\ frames # <<>>
           /\ Top.i <= Len(Top.handlers)
           /\ Top.handlers[Top.i].weak
           /\ Top.handlers[Top.i].id \in dead
           /\ propagate(stop)) =>
              /\ emitted'.ret # "ValueError"
              /\ ~In(HandlersOf(Top.name)', Top.handlers[Top.i])
              /\ frames' = Append(SubSeq(frames, 1, Len(frames) - 1),
                                  [Top EXCEPT !.i = Top.i + 1])]_vars

(***************************************************************************)
(* Properties of the command registry.                                     *)
(***************************************************************************)
\* the registered names other than name that name abbreviates
Abbreviated(name) ==
    {cmd \in DOMAIN commands :
        cmd # name /\ commands[cmd].allow_abbrev /\ StartsWith(cmd, name)}

\* C14: get_command(name, abbrev=True) raises the Ambiguous error
\* (ValueError) whenever name abbreviates two or more registered names and is
\* not itself a registered name
C14_AmbiguousRaised ==
    [][\A name \in Queries :
          (/\ Cardinality(Abbreviated(name)) >= 2
           /\ name \notin DOMAIN commands
           /\ get_command(name, TRUE)) => got'.result = Raised("ValueError")]_vars

\* C15: get_command(name, abbrev=True) returns the class registered under
\* name whenever name is registered, also when name abbreviates other
\* registered names
C15_ExactWins ==
    [][\A name \in Queries :
          (name \in DOMAIN commands /\ get_command(name, TRUE)) =>
              got'.result = Returned(commands[name])]_vars

\* "edit" was asked for with "editall" registered and open to abbreviation
C15_Witness ==
    /\ got.asked /\ got.abbrev
    /\ got.name = Edit
    /\ Edit \in DOMAIN commands
    /\ EditAll \in DOMAIN commands
    /\ commands[EditAll].allow_abbrev
    /\ got.result = Returned(commands[Edit])

\* C16: get_command(name, abbrev=True) matches the registered names that equal
\* name or that start with name and whose class allows abbreviation: with no
\* match it raises the not-found error (KeyError), with one match it returns
\* the class of that name
C16_OneMatchReturned ==
    [][\A name \in Queries :
          get_command(name, TRUE) =>
              LET matching == Abbreviated(name) \cup ({name} \cap DOMAIN commands)
              IN  /\ matching = {} => got'.result = Raised("KeyError")
                  /\ \A cmd \in matching :
                        matching = {cmd} => got'.result = Returned(commands[cmd])]_vars

\* "e" resolved to exit, the one name it abbreviates: edit is registered
\* too, with a class that does not allow abbreviation
C16_Witness ==
    /\ got.asked /\ got.abbrev
    /\ got.name = <<"e">>
    /\ DOMAIN commands = {Edit, Exit}
    /\ ~commands[Edit].allow_abbrev
    /\ commands[Exit].allow_abbrev
    /\ got.result = Returned(commands[Exit])

(***************************************************************************)
(* Properties of the line helpers.                                         *)
(***************************************************************************)
\* the places where the words of the line begin, as line.split() finds them
WordStarts(ln) ==
    {i \in 1 .. Len(ln) : ln[i] # " " /\ (i = 1 \/ ln[i - 1] = " ")}

\* the text from the beginning of word number k on (words counted from 0),
\* the empty string when the line has fewer words
FromWord(ln, k) ==
    IF k >= Cardinality(WordStarts(ln)) THEN <<>>
    ELSE LET start == CHOOSE i \in WordStarts(ln) :
                          Cardinality({j \in WordStarts(ln) : j < i}) = k
         IN  SubSeq(ln, start, Len(ln))

\* C17: rest(n) returns the text of the line from the beginning of word number
\* n + shift on, shift being the number of shift() calls made, and the empty
\* string when the line has fewer words; rest(0) with no shift is the whole
\* of a line that begins with a word
C17_RestFromWord ==
    [][\A n \in 0 .. MaxLine :
          rest(n) => out'.value = FromWord(line, n + shifted)]_vars

\* C18: tabinsert(word) returns the line with the text between the last space
\* before the cursor (the beginning of the line if there is none) and the
\* cursor replaced by word; the text up to and including that space and the
\* text from the cursor on are kept
C18_TabinsertSplices ==
    [][\A word \in Words :
          tabinsert(word) =>
              \E k \in 0 .. pos :
                  /\ k = 0 \/ line[k] = " "
                  /\ \A i \in k + 1 .. pos : line[i] # " "
                  /\ out'.value = SubSeq(line, 1, k) \o word
                                     \o SubSeq(line, pos + 1, Len(line))]_vars

\* a word was put in place of a fragment that has two spaces before it and
\* text behind the cursor
C18_Witness ==
    /\ out.op = "tabinsert"
    /\ 0 < pos /\ pos < Len(line)
    /\ line[pos] # " "
    /\ Cardinality(SpacesBefore(line, pos)) = 2
    /\ out.value # line

(***************************************************************************)
(* Properties of the history.                                              *)
(***************************************************************************)
\* C19 (as the specification states it): add(x) with x equal to the current
\* top leaves both stacks unchanged; every other add(x) makes x the new top
\* of the back stack and empties the forward stack
C19_AddPushesNew ==
    [][\A x \in Items :
          add(x) =>
              IF history # <<>> /\ history[Len(history)] = x
              THEN history' = history /\ history_forward' = history_forward
              ELSE /\ history' # <<>>
                   /\ history'[Len(history')] = x
                   /\ \/ Popped(history') = history
                      \/ history # <<>> /\ Popped(history') = Tail(history)
                   /\ history_forward' = <<>>]_vars

\* C19 (amended): as above for a History whose maxlen is not 0; a History of
\* maxlen 0 stays empty
C19_AddPushesNewUnlessNoRoom ==
    [][\A x \in Items :
          add(x) =>
              IF history # <<>> /\ history[Len(history)] = x
              THEN history' = history /\ history_forward' = history_forward
              ELSE IF maxlen = 0
              THEN history' = <<>> /\ history_forward' = <<>>
              ELSE /\ history' # <<>>
                   /\ history'[Len(history')] = x
                   /\ \/ Popped(history') = history
                      \/ history # <<>> /\ Popped(history') = Tail(history)
                   /\ history_forward' = <<>>]_vars

\* an add has pushed an entry on a History that had a forward stack
C19_Witness ==
    /\ hcall.op = "add"
    /\ hcall.before.history_forward # <<>>
    /\ history = Append(hcall.before.history, hcall.item)
    /\ history_forward = <<>>

\* C20: after back() on a History with two or more entries in its back stack,
\* forward() returns the top the History had before the back() and leaves
\* both stacks as they were before it
C20_BackForward ==
    [][(/\ hcall.op = "back"
        /\ Len(hcall.before.history) >= 2
        /\ forward("forward", 0)) =>
            /\ hcall'.ret = hcall.before.history[Len(hcall.before.history)]
            /\ ~hcall'.raised
            /\ history' = hcall.before.history
            /\ history_forward' = hcall.before.history_forward]_vars

\* back() and then forward() were called on a full History that had a forward
\* stack
C20_Witness ==
    /\ hcall.op = "forward"
    /\ hcall.before.history_forward # <<>>
    /\ Len(history) >= 2
    /\ Len(history_forward) >= 1
    /\ Len(history) + Len(history_forward) = maxlen
    /\ hcall.before.history = Popped(history)

\* back() on a back stack of at most one entry, forward() on an empty forward
\* stack
NoSource ==
    \/ back("back", 0) /\ Len(history) <= 1
    \/ forward("forward", 0) /\ history_forward = <<>>

\* C21 (as the specification states it): back() on a History whose back stack
\* has no or one entry, and forward() on a History whose forward stack is
\* empty, change neither stack and return the current top
C21_NoSourceReturnsTop ==
    [][NoSource =>
          /\ history' = history
          /\ history_forward' = history_forward
          /\ ~hcall'.raised
          /\ history # <<>>
          /\ hcall'.ret = history[Len(history)]]_vars

\* C21 (amended): such a back() or forward() changes neither stack; on a
\* History that has an entry it returns the current top, on an empty History
\* it raises HistoryEmptyException
C21_NoSourceReturnsTopOrRaises ==
    [][NoSource =>
          /\ history' = history
          /\ history_forward' = history_forward
          /\ IF history = <<>>
             THEN hcall'.raised
             ELSE ~hcall'.raised /\ hcall'.ret = history[Len(history)]]_vars

\* back() was called on a History with one entry in its back stack and an
\* entry in its forward stack, and returned that one entry
C21_Witness ==
    /\ hcall.op = "back"
    /\ Len(hcall.before.history) = 1
    /\ hcall.before.history_forward # <<>>
    /\ history = hcall.before.history
    /\ history_forward = hcall.before.history_forward
    /\ ~hcall.raised
    /\ hcall.ret = history[1]

\* C22: move(n) makes one forward() step for n > 0 and one back() step for
\* n < 0; for n = 0 neither stack changes, and history_go(0) on a tab whose
\* History has an entry completes without error and leaves the tab unchanged
C22_MoveZeroNoOp ==
    [][\A relative \in {-1, 0, 1}, chdir \in BOOLEAN, pointed \in PointedObjs :
          (history # <<>> /\ history_go(relative, chdir, pointed)) =>
              /\ relative > 0 /\ history_forward # <<>> =>
                    /\ history' = Appended(history,
                           history_forward[Len(history_forward)], maxlen)
                    /\ history_forward' = Popped(history_forward)
              /\ relative < 0 /\ Len(history) > 1 =>
                    /\ history' = Popped(history)
                    /\ history_forward' = Appended(history_forward,
                           history[Len(history)], maxlen)
              /\ relative = 0 =>
                    /\ history' = history
                    /\ history_forward' = history_forward
                    /\ tcall'.raised = ""
                    /\ tab' = tab]_vars

\* a stack with every entry that repeats the one before it left out
RECURSIVE Collapsed(_)
Collapsed(h) ==
    IF Len(h) <= 1 THEN h
    ELSE IF h[Len(h)] = h[Len(h) - 1] THEN Collapsed(Popped(h))
    ELSE Append(Collapsed(Popped(h)), h[Len(h)])

\* C23: after inherit_history(other_history) the back stack of the tab's
\* History is the back stack of other_history followed by its own, with
\* immediately adjacent equal entries collapsed, and its forward stack is
\* empty
C23_Rebased ==
    [][\A other \in Others :
          inherit_history(other) =>
              /\ tcall'.raised = ""
              /\ history' = Collapsed(other \o history)
              /\ history_forward' = <<>>]_vars

\* the path made of the names ns, from the root
PathOf(ns) == Slash \o Joined([i \in 1 .. Len(ns) |-> <<ns[i]>>])

\* the Directory objects of the ancestors of the path, the root first and
\* then one for each name of the path, the last being that of the path itself
Ancestors(path) ==
    [i \in 1 .. Len(Names(path)) + 1 |->
        IF i = Len(Names(path)) + 1 THEN get_directory(path)
        ELSE get_directory(PathOf(SubSeq(Names(path), 1, i - 1)))]

\* the last call entered a directory
Entered ==
    /\ tcall.op \in {"enter_dir", "history_go"}
    /\ tcall.events # <<>>

\* C24: after an enter_dir that entered the path P, the pathway holds the
\* Directory objects of the ancestors of P, the root first and P last, each
\* once: one entry for "/", three for "/a/b"
C24_PathwayIsAncestors ==
    Entered =>
        /\ tab.pathway = Ancestors(tab.path)
        /\ \A i, j \in 1 .. Len(tab.pathway) :
              tab.pathway[i] = tab.pathway[j] => i = j

\* C25: whenever thisdir is set, the pathway is not empty, its last element is
\* thisdir, and path is the path of thisdir (the key the cache holds it under)
C25_PathwayEndsAtThisdir ==
    tab.thisdir # NoDir =>
        /\ tab.pathway # <<>>
        /\ tab.pathway[Len(tab.pathway)] = tab.thisdir
        /\ tab.path = tab.thisdir

\* C26: enter_dir on a path that does not exist or is no directory returns
\* False and changes nothing: path, thisdir, thisfile, the pathway and the
\* History are as before, and no "cd" signal is emitted
C26_RejectedChangesNothing ==
    [][\A arg \in Args :
          (/\ tcall'.op = "enter_dir"
           /\ Names(Target(arg)) \notin Dirs
           /\ \E record \in BOOLEAN, chdir \in BOOLEAN :
                 enter_dir(arg, record, chdir, NoDir)) =>
              /\ tcall'.ret = "False"
              /\ tcall'.events = <<>>
              /\ tab' = tab
              /\ history' = history
              /\ history_forward' = history_forward]_vars

\* enter_dir was rejected on a tab that is in /a and has a forward stack
C26_Witness ==
    /\ tcall.op = "enter_dir"
    /\ tcall.ret = "False"
    /\ tab.thisdir = DirA
    /\ tab.pathway = <<Slash, DirA>>
    /\ history_forward # <<>>

\* C27: an enter_dir on an existing directory whose chdir fails leaves the
\* tab, the History and the signals emitted exactly as the enter_dir with the
\* same arguments whose chdir succeeds: path, thisdir, the pathway and
\* thisfile are updated, the History is updated as asked, "cd" is emitted
C27_FailedChdirContinues ==
    [][\A arg \in Args, record \in BOOLEAN :
          (/\ tcall'.op = "enter_dir"
           /\ isdir(Target(arg))
           /\ enter_dir(arg, record, FALSE, NoDir)) =>
              \E pointed \in PointedObjs :
                  enter_dir(arg, record, TRUE, pointed)]_vars

\* C28: every enter_dir that enters a directory (the path is a directory and
\* chdir succeeds) emits exactly one signal, a "cd" with previous = thisdir
\* before the call and new = thisdir after it, and emits it when path,
\* thisdir, the pathway, thisfile and the History have the values the call
\* leaves: a handler finds the new state
C28_OneCdAfterUpdate ==
    [][\A arg \in Args, record \in BOOLEAN :
          (/\ tcall'.op = "enter_dir"
           /\ isdir(Target(arg))
           /\ enter_dir(arg, record, TRUE, tab'.thisfile)) =>
              /\ tcall'.ret = "True"
              /\ Len(tcall'.events) = 1
              /\ tcall'.events[1].name = "cd"
              /\ tcall'.events[1].previous = tab.thisdir
              /\ tcall'.events[1].new = tab'.thisdir
              /\ tcall'.events[1].seen =
                     [tab |-> tab', history |-> history',
                      history_forward |-> history_forward']]_vars

\* enter_dir has gone from /a to /a/b, recorded it in the History, and
\* emitted "cd" with previous = /a and new = /a/b
C28_Witness ==
    /\ tcall.op = "enter_dir"
    /\ tcall.record
    /\ Len(tcall.events) = 1
    /\ tcall.events[1].previous = DirA
    /\ tcall.events[1].new = DirAB
    /\ tab.thisdir = DirAB
    /\ history = <<DirA, DirAB>>

C30_MoveAnnouncesThisfile ==
    [][/\ \A value \in ThisFiles, stop \in BOOLEAN, current \in BOOLEAN :
             set_thisfile(value, stop, current) =>
                 IF value = tab.thisfile
                 THEN tcall'.events = <<>>
                 ELSE /\ Len(tcall'.events) = 1
                      /\ tcall'.events[1].name = "move"
                      /\ tcall'.events[1].previous = tab.thisfile
                      /\ tcall'.events[1].new = value
                      /\ tcall'.events[1].tab = 1
       /\ tab'.thisfile # tab.thisfile =>
             \E i \in 1 .. Len(tcall'.events) :
                 /\ tcall'.events[i].name = "move"
                 /\ tcall'.events[i].previous = tab.thisfile
                 /\ tcall'.events[i].new = tab'.thisfile
                 /\ tcall'.events[i].tab = 1]_vars

\* C31: under tab_open, tab_new, tab_move and tab_close the tab table is
\* never empty, and the assertion of _get_tab_list never fails
C31_TabsNeverEmpty ==
    /\ \E n \in TabNames : tabs[n] # NoPath
    /\ tabscall.raised # "AssertionError"

\* the line a cycle shows after its presses of the tab key: the typed text
\* and the candidates, in turn
Shown ==
    (<<cycle.origin>> \o cycle.candidates)
        [(cycle.presses % (Len(cycle.candidates) + 1)) + 1]

\* C32: while a completion cycle lasts the line is the candidate the number
\* of presses selects, with wraparound to the typed text after the last, and
\* typing a key discards the cycle
C32_TabCycles ==
    /\ [](console.tab_deque # NoDeque =>
             /\ console.line = Shown
             /\ Len(console.tab_deque) = Len(cycle.candidates) + 1)
    /\ [][cycle'.op = "type_key" /\ cycle' # cycle
             => console'.tab_deque = NoDeque]_vars

\* a cycle of two candidates is back at the typed text after three presses
C32_Witness ==
    /\ console.tab_deque # NoDeque
    /\ cycle.origin # <<>>
    /\ Len(cycle.candidates) = 2
    /\ cycle.candidates[1] # cycle.candidates[2]
    /\ cycle.presses = 3
    /\ console.line = cycle.origin
    /\ console.line \notin {cycle.candidates[1], cycle.candidates[2]}
\* the entries of both stacks in the order they were visited: the back stack,
\* then the forward stack from its top
Reversed(s) == [i \in 1 .. Len(s) |-> s[Len(s) + 1 - i]]
Timeline(h, f) == h \o Reversed(f)

\* C33: the two stacks of a History of maxlen m together hold at most m
\* entries, and back(), forward() and move() discard none: they leave the
\* entries of the two stacks and their order as they were
C33_StacksWithinMaxlen ==
    /\ [](maxlen # NoMaxlen => Len(history) + Len(history_forward) <= maxlen)
    /\ [][hcall'.op \in {"back", "forward", "move"} =>
             Timeline(history', history_forward')
                 = Timeline(history, history_forward)]_vars

\* back() has moved a second entry to the forward stack of a full History
C33_Witness ==
    /\ hcall.op = "back"
    /\ maxlen # NoMaxlen
    /\ Len(history) + Len(history_forward) = maxlen
    /\ Len(history_forward) = 2
    /\ Len(hcall.before.history_forward) = 1
(***************************************************************************)
(* Properties of stale preview jobs.                                       *)
(***************************************************************************)
\* the jobs whose callback ran in this step and whose cache entry was
\* invalidated and made anew since they were submitted
Stale(op) ==
    {j \in jobs : /\ last'.op = op
                  /\ j.id = last'.job
                  /\ previews[j.path] # NoDict
                  /\ j.data # previews[j.path]}

\* C34: the completion callback of a job whose cache entry was invalidated
\* and made anew by a later get_preview changes nothing of the newer entry
C34_StaleAfterKeepsNewer ==
    [][\A j \in Stale("on_after") :
          /\ previews' = previews
          /\ dicts'[previews[j.path]] = dicts[previews[j.path]]]_vars

\* the callback of the earlier job has run while the later job of the same
\* path is outstanding, and the newer entry is still loading and empty
C34_Witness ==
    /\ last.op = "on_after"
    /\ ~last.raised
    /\ previews[last.path] # NoDict
    /\ previews[last.path] # last.data
    /\ dicts[last.data].foundpreview = True
    /\ dicts[previews[last.path]] = [NewDict EXCEPT !.loading = TRUE]
    /\ \E j \in jobs : j.path = last.path /\ j.data = previews[last.path]

\* C35: the 'destroy' handler of a job whose cache entry was invalidated and
\* made anew by a later get_preview leaves the newer entry in place
C35_StaleDestroyKeepsNewer ==
    [][\A j \in Stale("on_destroy") :
          /\ previews'[j.path] = previews[j.path]
          /\ dicts'[previews[j.path]] = dicts[previews[j.path]]]_vars
\* C36: after an assignment tab.thisfile = value that returns, the thisfile
\* of the tab is the value, whatever the other handlers of "move" do
C36_AssignedThisfileHolds ==
    [][\A value \in ThisFiles, stop \in BOOLEAN, current \in BOOLEAN :
          set_thisfile(value, stop, current) /\ tcall'.raised = ""
              => tab'.thisfile = value]_vars
\* C37: current_tab names a tab of the tab table in every state, so tab_move
\* and tab_close find it in the tab list, and tab_close does not delete the
\* tab that is current when it returns
C37_CurrentTabInTable ==
    /\ [](/\ tabs[current_tab] # NoPath
          /\ tabscall.raised # "ValueError")
    /\ [][tabscall'.op = "tab_close" /\ tabs[current_tab'] # NoPath
             => tabs'[current_tab'] # NoPath]_vars
\* C38: traverse() ends on every directory tree and at every cursor position:
\* it enters a directory or stops, and does not call itself without end
C38_TraverseTerminates ==
    travcall.op = "traverse" => travcall.raised # "RuntimeError"
====
